---------------------------- MODULE Spec2Model ----------------------------
(***************************************************************************)
(* Session / signalling state machine of the voice-avatar client.          *)
(*                                                                         *)
(* Part I  models the hook orchestrator useVoiceAvatar (hooks/             *)
(*         useVoiceAvatar.ts, here src/unnamed/part_002): its refs, its    *)
(*         published React state, the browser objects it creates           *)
(*         (WebSockets, RTCPeerConnections, microphone streams, audio      *)
(*         contexts), its backoff timers and its suspended async handlers. *)
(* Part II models the service-based orchestrator of src/frontend/App.tsx   *)
(*         with WebRTCService (src/unnamed/part_006) and VoiceLiveService  *)
(*         (src/unnamed/part_007).                                         *)
(*                                                                         *)
(* JavaScript runs one task at a time: every event handler is one atomic   *)
(* action, and an async function contributes one action per stretch of     *)
(* code between two awaits.  A handler that calls other functions is the   *)
(* composition of operators on the record of the whole state (Cur).        *)
(***************************************************************************)
EXTENDS Integers, Sequences, FiniteSets, TLC

(* ------------------------------ bounds -------------------------------- *)

\* maxReconnectAttempts option of the hook (default 5 in the source)
MaxReconnectAttempts == 3
\* WebSockets created in one behaviour: one connect() followed by failing
\* reconnections creates at most twice maxReconnectAttempts sockets
MaxSockets == 2 * MaxReconnectAttempts
\* RTCPeerConnections created in one behaviour
MaxPCs == 2
\* session.ready handlers suspended at an await at the same time
MaxHandlers == 2
\* backoff timers pending at the same time: one connect() followed by failing
\* reconnections has at most maxReconnectAttempts timers pending
MaxTimers == MaxReconnectAttempts
\* microphone streams / capture contexts alive at the same time
MaxStreams == 2
\* suspended session.ready handlers in the connection-lifecycle specification
MaxConnHandlers == 1
\* WebSockets created in one behaviour of the connection-lifecycle specification
MaxConnSockets == 4
\* backoff timers pending at the same time in that specification
MaxConnTimers == 2
\* WebSockets created in one behaviour of the media specification
MaxMediaSockets == 2
\* sessions started by App.tsx in one behaviour (one VoiceLiveService and one
\* WebRTCService instance each)
MaxAppSessions == 2
\* RTCPeerConnections created by the WebRTCService instances in one behaviour
MaxAppPCs == 3
\* createOffer() calls in flight at the same time
MaxChains == 2
\* audio segments (audio.delta messages) received in one behaviour
MaxSegments == 3
\* transcript.delta texts held by the streaming accumulator
MaxDeltas == 2
\* entries of the transcript history
MaxTranscripts == 2
\* WebSockets created in one behaviour of the playback specification
MaxPlaySockets == 2
\* WebSockets created in one behaviour of the transcript specification
MaxTextSockets == 2
\* distinct handler functions offered to VoiceLiveService.onMessage
MaxSvcHandlers == 3

(* ----------------------------- constants ------------------------------ *)

\* const baseDelay = 1000 (milliseconds)
baseDelay == 1000

ErrWs == "WebSocket connection failed"
ErrMic == "Failed to access microphone"
ErrReconnect == "Failed to reconnect after multiple attempts"
\* the text of an error message of the peer
ErrServer == "data.message"
ErrSend == "Cannot send message: not connected"

SessionStatus == {"idle", "connecting", "connected", "error", "disconnected"}
AvatarMediaStatus == {"none", "connecting", "connected", "failed"}
SpeakingState == {"idle", "user", "assistant"}

(* ------------------------------- state -------------------------------- *)

VARIABLES
    \* published React state of the hook
    status, avatarStatus, speakingState, streamingTranscript, transcripts,
    \* refs of the hook (0 stands for null where a ref holds an object id)
    wsRef, peerConnectionRef, audioContextRef, mediaStreamRef, processorRef,
    playbackContextRef, audioQueueRef, isPlayingRef, currentSourceRef,
    reconnectAttemptsRef, shouldReconnectRef, avatarSdpSentRef,
    \* browser objects and pending work
    sockets,        \* id -> [st, kind, err, why, stale]
    pcs,            \* id -> "unused" | "open" | "closed"
    timers,         \* pending backoff waits of reconnectWithBackoff
    handlers,       \* session.ready handlers suspended at an await
    liveStreams,    \* microphone streams whose tracks are not stopped
    liveContexts,   \* capture AudioContexts that are not closed
    answered,       \* the peer connections whose remote description is set
    sources,        \* segment id -> [st, onended]: its AudioBufferSourceNode
    nextSeg,        \* audio segments decoded so far (segment ids are 1..nextSeg)
    mounted,        \* the component using the hook is mounted
    \* observations (what the presentation layer and the peer have seen)
    reported,       \* onError strings reported by the last step
    gaveUp,         \* the terminal reconnection failure was reported since connect()
    offersSent,     \* avatar.sdp offers sent since the latch was last reset
    pcsCreated,     \* peer connections created since the latch was last reset
    attemptLog,     \* delays of the reconnection sockets since connect()/disconnect()
    intended,       \* connect() was called and disconnect() was not, since
    userOps,        \* 0: no call yet, 1: one connect() only, 2: anything more
    lastCall,       \* "connect" when the last step was a call of connect()
    wsSent          \* the text.input messages written to the socket by the last step

hookVars == <<status, avatarStatus, speakingState, streamingTranscript, transcripts,
              wsRef, peerConnectionRef, audioContextRef, mediaStreamRef, processorRef,
              playbackContextRef, audioQueueRef, isPlayingRef, currentSourceRef,
              reconnectAttemptsRef, shouldReconnectRef, avatarSdpSentRef,
              sockets, pcs, timers, handlers, liveStreams, liveContexts,
              answered, sources, nextSeg, mounted,
              reported, gaveUp, offersSent, pcsCreated, attemptLog, intended,
              userOps, lastCall, wsSent>>

VARIABLES
    \* React state of App.tsx
    connectionState, appAvatarStatus,
    \* refs of App.tsx (0 stands for null, otherwise the id of the instance)
    voiceLiveRef, webrtcRef,
    \* the service instances
    vlWs,           \* VoiceLiveService id -> state of the WebSocket it created
    vlWsField,      \* VoiceLiveService id -> its field this.ws is not null
    rtcPc,          \* WebRTCService id -> its field this.pc (0 for null)
    appPcs,         \* peer connection id -> [st, desc]
    chains,         \* createOffer() calls suspended at an await
    sdpSent         \* VoiceLiveService id -> avatar.sdp messages it has sent

appVars == <<connectionState, appAvatarStatus, voiceLiveRef, webrtcRef, vlWs,
             vlWsField, rtcPc, appPcs, chains, sdpSent>>

VARIABLES
    \* voice-only playback of App.tsx
    appSpeakingState,   \* React state speakingState
    appAudioQueue,      \* audioQueueRef: the segment ids waiting to be played
    appIsPlaying,       \* isPlayingRef
    appCurrentSource,   \* currentSourceRef: a segment id, 0 for null
    appSources,         \* segment id -> [st, onended]: its AudioBufferSourceNode
    appNextSeg,         \* audio segments decoded so far
    vlAvatarSeen        \* VoiceLiveService id -> the avatarStatus its registered
                        \* message handler closed over

appPlayVars == <<appSpeakingState, appAudioQueue, appIsPlaying, appCurrentSource,
                 appSources, appNextSeg, vlAvatarSeen>>

VARIABLES
    \* one VoiceLiveService instance and its subscribers
    messageHandlers,    \* the Set messageHandlers, as the sequence of its
                        \* elements in insertion order
    unsubscribers,      \* the handlers for which onMessage has returned an
                        \* unsubscribe function
    notified            \* the handler calls made for the last inbound
                        \* message, in order: [h, threw]

svcVars == <<messageHandlers, unsubscribers, notified>>

(* ---- the capture path: PCM codec and the AudioWorklet processor ------- *)
VARIABLES
    pcm,          \* one sample on its way through encodePCM16ToBase64 / decodeBase64ToPCM16
    pcmProcessor, \* PCMProcessor: buffer (Float32Array(1200)) and bufferIndex
    port,         \* frames posted by the processor, not yet handled by port.onmessage
    fed,          \* every sample handed to process(), in order
    posted,       \* every frame the processor posted, in order
    sentAudio,    \* the data of every "audio" message written to the socket
    processCalls  \* number of process() calls so far

pcmVars == <<pcm, pcmProcessor, port, fed, posted, sentAudio, processCalls>>

(* ---- push-to-talk of the orchestrator (App.tsx, VoiceControls) -------- *)
VARIABLES
    isTalkingRef,     \* isTalkingRef.current
    isPushing,        \* VoiceControls state
    buttonDown,       \* the pointer is down on the talk button
    spaceDown,        \* the spacebar is held
    streamRef,        \* streamRef.current: a capture id, 0 for null
    appProcessorRef,  \* processorRef.current and inputSourceRef.current
    captures,         \* capture id -> [stream, processor]: what getUserMedia
                      \* and createScriptProcessor returned to one call
    pendingCaptures,  \* startAudioCapture calls waiting for getUserMedia
    wire              \* session -> the push-to-talk messages written to its socket

MaxCaptures == 2
MaxPendingCaptures == 2
MaxWire == 4

pttVars == <<isTalkingRef, isPushing, buttonDown, spaceDown, streamRef,
             appProcessorRef, captures, pendingCaptures, wire>>

audioVars == <<pcmVars, pttVars>>

(* A float is a fraction num/den with den > 0; the values used are exact in *)
(* Float32Array and in the double arithmetic of the conversions.            *)
Float(num, den) == [num |-> num, den |-> den]

FrameSize == 1200

NoPcm == [stage |-> "idle", x |-> Float(0, 1), base64 |-> <<>>, y |-> <<>>]

InitWorklet ==
    /\ pcmProcessor = [buffer |-> [i \in 1..FrameSize |-> Float(0, 1)], bufferIndex |-> 0]
    /\ port = <<>>
    /\ fed = <<>>
    /\ posted = <<>>
    /\ sentAudio = <<>>
    /\ processCalls = 0

SvcHandlerIds == 1..MaxSvcHandlers

InitSvc ==
    /\ messageHandlers = <<>>
    /\ unsubscribers = {}
    /\ notified = <<>>

AppIds == 1..MaxAppSessions
AppPcIds == 1..MaxAppPCs

CapIds == 1..MaxCaptures

NoCapture == [stream |-> "none", processor |-> "none"]

InitPtt ==
    /\ isTalkingRef = FALSE
    /\ isPushing = FALSE
    /\ buttonDown = FALSE
    /\ spaceDown = FALSE
    /\ streamRef = 0
    /\ appProcessorRef = 0
    /\ captures = [c \in CapIds |-> NoCapture]
    /\ pendingCaptures = 0
    /\ wire = [a \in AppIds |-> <<>>]


ConnectionState == {"DISCONNECTED", "CONNECTING", "CONNECTED", "ERROR"}

InitApp ==
    /\ connectionState = "DISCONNECTED"
    /\ appAvatarStatus = "none"
    /\ voiceLiveRef = 0
    /\ webrtcRef = 0
    /\ vlWs = [a \in AppIds |-> "unused"]
    /\ vlWsField = [a \in AppIds |-> FALSE]
    /\ rtcPc = [a \in AppIds |-> 0]
    /\ appPcs = [p \in AppPcIds |-> [st |-> "unused", desc |-> FALSE]]
    /\ chains = <<>>
    /\ sdpSent = [a \in AppIds |-> 0]

SocketIds == 1..MaxSockets
PcIds == 1..MaxPCs
SegIds == 1..MaxSegments

\* the texts carried by transcript.delta and transcript messages
Texts == {"a", "b"}
Roles == {"user", "assistant"}

\* no AudioBufferSourceNode exists for the segment
NoSource == [st |-> "none", onended |-> FALSE]

NoSocket == [st |-> "unused", kind |-> "none", err |-> FALSE, why |-> "none",
             stale |-> FALSE]

\* The whole state as one record, so that handlers compose as functions.
Cur ==
    [status |-> status, avatarStatus |-> avatarStatus,
     speakingState |-> speakingState,
     streamingTranscript |-> streamingTranscript, transcripts |-> transcripts,
     wsRef |-> wsRef, peerConnectionRef |-> peerConnectionRef,
     audioContextRef |-> audioContextRef, mediaStreamRef |-> mediaStreamRef,
     processorRef |-> processorRef, playbackContextRef |-> playbackContextRef,
     audioQueueRef |-> audioQueueRef, isPlayingRef |-> isPlayingRef,
     currentSourceRef |-> currentSourceRef,
     reconnectAttemptsRef |-> reconnectAttemptsRef,
     shouldReconnectRef |-> shouldReconnectRef,
     avatarSdpSentRef |-> avatarSdpSentRef,
     sockets |-> sockets, pcs |-> pcs, timers |-> timers, handlers |-> handlers,
     liveStreams |-> liveStreams, liveContexts |-> liveContexts,
     answered |-> answered, sources |-> sources, nextSeg |-> nextSeg,
     mounted |-> mounted, reported |-> {}, gaveUp |-> gaveUp,
     offersSent |-> offersSent,
     pcsCreated |-> pcsCreated, attemptLog |-> attemptLog, intended |-> intended,
     userOps |-> userOps, lastCall |-> "none", wsSent |-> <<>>,
     overflow |-> FALSE]

\* The bounds of the model, as a guard on the state an action produces.
WithinBounds(s) ==
    /\ ~s.overflow
    /\ Len(s.timers) <= MaxTimers
    /\ Len(s.handlers) <= MaxHandlers
    /\ s.liveStreams <= MaxStreams
    /\ s.liveContexts <= MaxStreams
    /\ Len(s.streamingTranscript) <= MaxDeltas
    /\ Len(s.transcripts) <= MaxTranscripts

Commit(s) ==
    /\ WithinBounds(s)
    /\ status' = s.status
    /\ avatarStatus' = s.avatarStatus
    /\ speakingState' = s.speakingState
    /\ streamingTranscript' = s.streamingTranscript
    /\ transcripts' = s.transcripts
    /\ wsRef' = s.wsRef
    /\ peerConnectionRef' = s.peerConnectionRef
    /\ audioContextRef' = s.audioContextRef
    /\ mediaStreamRef' = s.mediaStreamRef
    /\ processorRef' = s.processorRef
    /\ playbackContextRef' = s.playbackContextRef
    /\ audioQueueRef' = s.audioQueueRef
    /\ isPlayingRef' = s.isPlayingRef
    /\ currentSourceRef' = s.currentSourceRef
    /\ reconnectAttemptsRef' = s.reconnectAttemptsRef
    /\ shouldReconnectRef' = s.shouldReconnectRef
    /\ avatarSdpSentRef' = s.avatarSdpSentRef
    /\ sockets' = s.sockets
    /\ pcs' = s.pcs
    /\ timers' = s.timers
    /\ handlers' = s.handlers
    /\ liveStreams' = s.liveStreams
    /\ liveContexts' = s.liveContexts
    /\ answered' = s.answered
    /\ sources' = s.sources
    /\ nextSeg' = s.nextSeg
    /\ mounted' = s.mounted
    /\ reported' = s.reported
    /\ gaveUp' = s.gaveUp
    /\ offersSent' = s.offersSent
    /\ pcsCreated' = s.pcsCreated
    /\ attemptLog' = s.attemptLog
    /\ intended' = s.intended
    /\ userOps' = s.userOps
    /\ lastCall' = s.lastCall
    /\ wsSent' = s.wsSent
    /\ UNCHANGED <<appVars, appPlayVars, svcVars, audioVars>>

(* ----------------------- browser object helpers ----------------------- *)

Live(sock) == sock.st \in {"connecting", "open"}

UsedSockets(s) == {i \in SocketIds : s.sockets[i].st # "unused"}
UsedPcs(s) == {p \in PcIds : s.pcs[p] # "unused"}

\* WebSocket.readyState === WebSocket.OPEN on wsRef.current
WsOpen(s) == s.wsRef # 0 /\ s.sockets[s.wsRef].st = "open"

\* WebSocket.close(): a CONNECTING socket fails (error, then close, later);
\* an OPEN socket closes (close, later); otherwise nothing happens.
CloseSocket(sk, why) ==
    IF sk.st = "connecting"
    THEN [sk EXCEPT !.st = "closing", !.err = TRUE, !.why = why]
    ELSE IF sk.st = "open"
    THEN [sk EXCEPT !.st = "closing", !.err = FALSE, !.why = why]
    ELSE sk

\* new WebSocket(wsUrl); wsRef.current = ws, with the handlers of `kind`
NewSocket(s, kind, stale) ==
    LET id == Cardinality(UsedSockets(s)) + 1 IN
    IF id > MaxSockets THEN [s EXCEPT !.overflow = TRUE]
    ELSE [s EXCEPT !.sockets[id] = [st |-> "connecting", kind |-> kind,
                                    err |-> FALSE, why |-> "none", stale |-> stale],
                   !.wsRef = id]

InitAppPlay ==
    /\ appSpeakingState = "idle"
    /\ appAudioQueue = <<>>
    /\ appIsPlaying = FALSE
    /\ appCurrentSource = 0
    /\ appSources = [k \in SegIds |-> NoSource]
    /\ appNextSeg = 0
    /\ vlAvatarSeen = [a \in AppIds |-> "none"]

onError(s, msg) == [s EXCEPT !.reported = @ \cup {msg}]

RemoveAt(seq, k) == [j \in 1..(Len(seq) - 1) |-> IF j < k THEN seq[j] ELSE seq[j + 1]]

(* ------------------------------ cleanup ------------------------------- *)

InQueue(s, k) == \E j \in 1..Len(s.audioQueueRef) : s.audioQueueRef[j] = k

\* audioQueueRef.current = []: the queued segments are dropped unplayed
DropQueued(s, srcs) ==
    [k \in SegIds |-> IF InQueue(s, k) THEN [srcs[k] EXCEPT !.st = "dropped"]
                      ELSE srcs[k]]

\* source.stop(): the source falls silent, its ended event is still to come
StopSource(src) == IF src.st = "playing" THEN [src EXCEPT !.st = "stopping"] ELSE src

\* cleanup stops the current source (its onended handler stays attached) and
\* closes the playback context, which silences every source of that context
cleanup(s, why) ==
    [s EXCEPT
        !.processorRef = FALSE,
        !.liveContexts = IF s.audioContextRef THEN @ - 1 ELSE @,
        !.audioContextRef = FALSE,
        !.sources = LET a == IF s.currentSourceRef # 0
                             THEN [@ EXCEPT ![s.currentSourceRef] = StopSource(@)]
                             ELSE @
                        b == IF s.playbackContextRef
                             THEN [k \in SegIds |-> StopSource(a[k])]
                             ELSE a
                    IN  DropQueued(s, b),
        !.currentSourceRef = 0,
        !.playbackContextRef = FALSE,
        !.audioQueueRef = <<>>,
        !.isPlayingRef = FALSE,
        !.liveStreams = IF s.mediaStreamRef THEN @ - 1 ELSE @,
        !.mediaStreamRef = FALSE,
        !.pcs = IF s.peerConnectionRef # 0
                THEN [@ EXCEPT ![s.peerConnectionRef] = "closed"] ELSE @,
        !.peerConnectionRef = 0,
        !.sockets = IF s.wsRef # 0
                    THEN [@ EXCEPT ![s.wsRef] = CloseSocket(@, why)] ELSE @,
        !.wsRef = 0,
        !.avatarSdpSentRef = FALSE,
        !.offersSent = 0,
        !.pcsCreated = 0]

(* ----------------------- playback and WebRTC -------------------------- *)

initPeerConnection(s) ==
    LET id == Cardinality(UsedPcs(s)) + 1 IN
    IF id > MaxPCs THEN [s EXCEPT !.overflow = TRUE]
    ELSE [s EXCEPT !.pcs[id] = "open", !.peerConnectionRef = id,
                   !.pcsCreated = @ + 1]

\* createAndSendOffer(pc) up to its first await: the handler is suspended
\* until createOffer, setLocalDescription and ICE gathering have finished.
createAndSendOffer(s, pc) ==
    [s EXCEPT !.handlers = Append(@, [stage |-> "ice", ice |-> TRUE, pc |-> pc])]

\* createAndSendOffer(pc) after ICE gathering completed
sendOffer(s) ==
    IF WsOpen(s) THEN [s EXCEPT !.offersSent = @ + 1] ELSE s

\* variant: a session.ready without ICE servers leaves the avatar status alone
avatarSetupKeepsStatus(s, ice) ==
    IF ice
    THEN IF s.avatarSdpSentRef THEN s
         ELSE LET a == [s EXCEPT !.avatarStatus = "connecting",
                                 !.avatarSdpSentRef = TRUE]
                  b == initPeerConnection(a)
              IN  createAndSendOffer(b, b.peerConnectionRef)
    ELSE s

\* handleMessage, case session.ready, after startAudioCapture has returned
avatarSetup(s, ice) ==
    IF ice
    THEN IF s.avatarSdpSentRef THEN s
         ELSE LET a == [s EXCEPT !.avatarStatus = "connecting",
                                 !.avatarSdpSentRef = TRUE]
                  b == initPeerConnection(a)
              IN  createAndSendOffer(b, b.peerConnectionRef)
    ELSE [s EXCEPT !.avatarStatus = "none"]

\* startAudioCapture after getUserMedia resolved, up to the addModule await
captureAcquired(s) ==
    [s EXCEPT !.mediaStreamRef = TRUE, !.liveStreams = @ + 1,
              !.audioContextRef = TRUE, !.liveContexts = @ + 1]

\* startAudioCapture after the worklet (or the ScriptProcessor fallback) is set up
captureWired(s) == [s EXCEPT !.processorRef = TRUE]

(* -------------------------- reconnection ------------------------------ *)

delayOf(attempt) == baseDelay * (2 ^ attempt)

\* reconnectWithBackoff up to its await on the backoff timer
reconnectWithBackoff(s) ==
    IF ~s.shouldReconnectRef THEN s
    ELSE IF s.reconnectAttemptsRef >= MaxReconnectAttempts
    THEN [onError(s, ErrReconnect) EXCEPT !.shouldReconnectRef = FALSE,
                                           !.gaveUp = TRUE]
    ELSE [s EXCEPT !.status = "connecting",
                   !.timers = Append(@, [attempt |-> s.reconnectAttemptsRef,
                                         cancelled |-> FALSE])]

\* reconnectWithBackoff after the backoff timer fired
reconnectAfterWait(s, timer) ==
    IF ~s.shouldReconnectRef THEN s
    ELSE NewSocket([s EXCEPT !.reconnectAttemptsRef = @ + 1,
                             !.attemptLog = Append(@, delayOf(timer.attempt))],
                   "reconnect", timer.cancelled)

(* ------------------------ socket event handlers ----------------------- *)

onopen(s, kind) ==
    IF kind = "connect"
    THEN [s EXCEPT !.reconnectAttemptsRef = 0]
    ELSE [s EXCEPT !.reconnectAttemptsRef = 0, !.shouldReconnectRef = FALSE]

\* variant: the error handler of a reconnection socket only logs the error and
\* leaves the retry to the close handler
onerrorLogsOnly(s, kind) ==
    IF kind = "connect"
    THEN [onError(s, ErrWs) EXCEPT !.status = "error"]
    ELSE s

onerror(s, kind) ==
    IF kind = "connect"
    THEN [onError(s, ErrWs) EXCEPT !.status = "error"]
    ELSE reconnectWithBackoff(s)

onclose(s, kind) ==
    IF kind = "connect"
    THEN IF s.shouldReconnectRef
         THEN reconnectWithBackoff(cleanup(s, "cleanup"))
         ELSE cleanup([s EXCEPT !.status = "disconnected"], "cleanup")
    ELSE IF s.shouldReconnectRef
         THEN reconnectWithBackoff(s)
         ELSE cleanup([s EXCEPT !.status = "disconnected"], "cleanup")

\* the socket's record once its close event has been dispatched
Closed(sk) == [sk EXCEPT !.st = "closed", !.kind = "none", !.err = FALSE,
                         !.why = "none"]

(* ----------------------------- playback ------------------------------ *)

\* the C16 mutant: the segment queued last is started first
playNextInQueueLast(s) ==
    IF s.audioQueueRef = <<>> \/ ~s.playbackContextRef
    THEN [s EXCEPT !.isPlayingRef = FALSE, !.currentSourceRef = 0]
    ELSE LET k == s.audioQueueRef[Len(s.audioQueueRef)]
         IN  [s EXCEPT !.isPlayingRef = TRUE,
                       !.audioQueueRef = SubSeq(@, 1, Len(@) - 1),
                       !.sources[k] = [st |-> "playing", onended |-> TRUE],
                       !.currentSourceRef = k]

\* playNextInQueue: start the head of the queue, or go idle
playNextInQueue(s) ==
    IF s.audioQueueRef = <<>> \/ ~s.playbackContextRef
    THEN [s EXCEPT !.isPlayingRef = FALSE, !.currentSourceRef = 0]
    ELSE LET k == Head(s.audioQueueRef)
         IN  [s EXCEPT !.isPlayingRef = TRUE,
                       !.audioQueueRef = Tail(@),
                       !.sources[k] = [st |-> "playing", onended |-> TRUE],
                       !.currentSourceRef = k]

\* playAudioChunk: the playback context is created on first use; a chunk that
\* does not decode is dropped by the catch clause; a decoded segment is
\* appended to the queue and started if nothing is playing
playAudioChunk(s, decodes) ==
    LET a == [s EXCEPT !.playbackContextRef = TRUE]
        k == s.nextSeg + 1
        b == [a EXCEPT !.nextSeg = k, !.audioQueueRef = Append(@, k)]
    IN  IF ~decodes THEN a
        ELSE IF k > MaxSegments THEN [s EXCEPT !.overflow = TRUE]
        ELSE IF ~b.isPlayingRef THEN playNextInQueue(b)
        ELSE b

\* the C14 mutant: the flush empties the queue and leaves the source playing
stopAudioPlaybackQueueOnly(s) ==
    [s EXCEPT !.sources = DropQueued(s, @),
              !.audioQueueRef = <<>>,
              !.isPlayingRef = FALSE]

\* stopAudioPlayback: detach onended, stop the current source, empty the queue
stopAudioPlayback(s) ==
    [s EXCEPT !.sources =
                  DropQueued(s, IF s.currentSourceRef # 0
                                THEN [@ EXCEPT ![s.currentSourceRef] =
                                         [StopSource(@) EXCEPT !.onended = FALSE]]
                                ELSE @),
              !.currentSourceRef = 0,
              !.audioQueueRef = <<>>,
              !.isPlayingRef = FALSE]

\* the onended callback installed by playNextInQueue
onended(s) == playNextInQueue([s EXCEPT !.currentSourceRef = 0])

(* ---------------------------- user calls ------------------------------ *)

\* the body of connect() behind its status guard
connectBody(s) ==
    NewSocket([s EXCEPT !.status = "connecting",
                        !.transcripts = <<>>,
                        !.streamingTranscript = <<>>,
                        !.reconnectAttemptsRef = 0,
                        !.shouldReconnectRef = TRUE,
                        !.avatarSdpSentRef = FALSE,
                        !.gaveUp = FALSE, !.attemptLog = <<>>, !.intended = TRUE,
                        !.offersSent = 0,
                        !.pcsCreated = 0,
                        !.userOps = IF @ = 0 THEN 1 ELSE 2],
              "connect", FALSE)

\* the C20 mutant: connect() without its status guard
connectIgnoresStatus(s) == connectBody(s)

\* connect(): nothing happens while the session is connecting or connected
connect(s) ==
    IF s.status \in {"connecting", "connected"} THEN s ELSE connectBody(s)

disconnect(s) ==
    LET a == [s EXCEPT !.shouldReconnectRef = FALSE, !.reconnectAttemptsRef = 0]
        b == cleanup(a, "disconnect")
    IN  [b EXCEPT !.status = "disconnected",
                  !.speakingState = "idle",
                  !.avatarStatus = "none",
                  !.streamingTranscript = <<>>,
                  !.intended = FALSE,
                  !.attemptLog = <<>>,
                  !.userOps = 2,
                  !.timers = [k \in 1..Len(@) |-> [@[k] EXCEPT !.cancelled = TRUE]]]

(* ------------------------------ actions ------------------------------- *)

Connect ==
    /\ mounted
    /\ status \notin {"connecting", "connected"}
    /\ Commit(connect(Cur))

\* connect() called in any state of the session, the call observed
ConnectCall ==
    /\ mounted
    /\ Commit([connect(Cur) EXCEPT !.lastCall = "connect"])

Disconnect ==
    /\ mounted
    /\ Commit(disconnect(Cur))

Unmount ==
    /\ mounted
    /\ Commit([cleanup(Cur, "unmount") EXCEPT !.mounted = FALSE, !.userOps = 2])

\* the connection is established: open event
SocketOpen(i) ==
    /\ sockets[i].st = "connecting"
    /\ Commit(onopen([Cur EXCEPT !.sockets[i].st = "open"], sockets[i].kind))

\* the connection fails (never established, or dropped): error event, then
\* close event, dispatched in the same task
SocketFail(i) ==
    /\ Live(sockets[i])
    /\ LET k == sockets[i].kind
           a == [Cur EXCEPT !.sockets[i] = Closed(@)]
       IN  Commit(onclose(onerror(a, k), k))

\* the peer closes an open connection cleanly: close event only
SocketPeerClose(i) ==
    /\ sockets[i].st = "open"
    /\ Commit(onclose([Cur EXCEPT !.sockets[i] = Closed(@)], sockets[i].kind))

\* the close event of a socket on which close() was called
SocketClosed(i) ==
    /\ sockets[i].st = "closing"
    /\ LET k == sockets[i].kind
           a == [Cur EXCEPT !.sockets[i] = Closed(@)]
       IN  Commit(onclose(IF sockets[i].err THEN onerror(a, k) ELSE a, k))

\* the backoff timer of one reconnectWithBackoff call fires
TimerFire(k) ==
    /\ k \in 1..Len(timers)
    /\ Commit(reconnectAfterWait([Cur EXCEPT !.timers = RemoveAt(@, k)], timers[k]))

\* handleMessage, case session.ready, up to its first await
OnSessionReady(i, ice) ==
    /\ sockets[i].st = "open"
    /\ LET a == [Cur EXCEPT !.status = "connected"]
       IN  IF ~audioContextRef
           THEN Commit([a EXCEPT !.handlers =
                           Append(@, [stage |-> "gum", ice |-> ice, pc |-> 0])])
           ELSE Commit(avatarSetup(a, ice))

\* getUserMedia resolves; the browser may or may not support AudioWorklet
GumResolve(k, worklet) ==
    /\ k \in 1..Len(handlers)
    /\ handlers[k].stage = "gum"
    /\ LET a == captureAcquired(Cur)
       IN  IF worklet
           THEN Commit([a EXCEPT !.handlers[k].stage = "worklet"])
           ELSE Commit(avatarSetup([captureWired(a) EXCEPT
                                       !.handlers = RemoveAt(@, k)],
                                   handlers[k].ice))

\* variant: a rejected getUserMedia ends the session.ready handler
GumRejectEndsHandler(k) ==
    /\ k \in 1..Len(handlers)
    /\ handlers[k].stage = "gum"
    /\ Commit([onError(Cur, ErrMic) EXCEPT !.handlers = RemoveAt(@, k)])

\* getUserMedia rejects: startAudioCapture reports it and returns
GumReject(k) ==
    /\ k \in 1..Len(handlers)
    /\ handlers[k].stage = "gum"
    /\ Commit(avatarSetup([onError(Cur, ErrMic) EXCEPT !.handlers = RemoveAt(@, k)],
                          handlers[k].ice))

\* audioWorklet.addModule settles (on rejection the ScriptProcessor is used)
WorkletSettled(k) ==
    /\ k \in 1..Len(handlers)
    /\ handlers[k].stage = "worklet"
    /\ Commit(avatarSetup([captureWired(Cur) EXCEPT !.handlers = RemoveAt(@, k)],
                          handlers[k].ice))

\* ICE gathering of the handler's peer connection completes
IceComplete(k) ==
    /\ k \in 1..Len(handlers)
    /\ handlers[k].stage = "ice"
    /\ pcs[handlers[k].pc] = "open"
    /\ Commit(sendOffer([Cur EXCEPT !.handlers = RemoveAt(@, k)]))

\* the peer connection was closed under the handler: createOffer rejects, or
\* the gathering promise never settles; either way nothing more happens
OfferAbandoned(k) ==
    /\ k \in 1..Len(handlers)
    /\ handlers[k].stage = "ice"
    /\ pcs[handlers[k].pc] = "closed"
    /\ Commit([Cur EXCEPT !.handlers = RemoveAt(@, k)])

\* handleMessage, case error; isErrorMessage(data) holds when the message
\* carries a string `message` field
OnErrorMessage(i, hasMessage) ==
    /\ sockets[i].st = "open"
    /\ Commit([(IF hasMessage THEN onError(Cur, ErrServer) ELSE Cur)
                  EXCEPT !.status = "error"])

\* handleMessage, cases avatar.connected and avatar.error
OnAvatarOutcome(i, ok) ==
    /\ sockets[i].st = "open"
    /\ Commit([Cur EXCEPT !.avatarStatus = IF ok THEN "connected" ELSE "failed"])

\* handleMessage, case avatar.sdp, up to its await: the answer is applied to
\* the current peer connection if there is one and the message carries an SDP
OnAvatarSdp(i, hasSdp) ==
    /\ sockets[i].st = "open"
    /\ Commit(IF peerConnectionRef # 0 /\ hasSdp
              THEN [Cur EXCEPT !.handlers =
                       Append(@, [stage |-> "sdp", ice |-> FALSE,
                                  pc |-> peerConnectionRef])]
              ELSE Cur)

\* setRemoteDescription resolves
SdpApplied(k) ==
    /\ k \in 1..Len(handlers)
    /\ handlers[k].stage = "sdp"
    /\ pcs[handlers[k].pc] = "open"
    /\ Commit([Cur EXCEPT !.handlers = RemoveAt(@, k),
                          !.answered = @ \cup {handlers[k].pc}])

\* setRemoteDescription rejects (the answer is invalid, or the peer
\* connection was closed): the catch clause logs the error
SdpRejected(k) ==
    /\ k \in 1..Len(handlers)
    /\ handlers[k].stage = "sdp"
    /\ Commit([Cur EXCEPT !.handlers = RemoveAt(@, k)])

\* handleMessage, case user.speaking.started
OnUserSpeakingStarted(i) ==
    /\ sockets[i].st = "open"
    /\ Commit([stopAudioPlayback(Cur) EXCEPT !.streamingTranscript = <<>>,
                                             !.speakingState = "user"])

\* handleMessage, the cases that only set the speaking state:
\* user.speaking.stopped, assistant.response.started, assistant.*.done
OnSpeakingMessage(i, state) ==
    /\ sockets[i].st = "open"
    /\ state \in {"idle", "assistant"}
    /\ Commit([Cur EXCEPT !.speakingState = state])

\* handleMessage, case audio.delta: no condition on the avatar status
OnAudioDelta(i, decodes) ==
    /\ sockets[i].st = "open"
    /\ Commit(playAudioChunk(Cur, decodes))

\* the ended event of a source: it finished playing, or it was stopped
SourceEnded(k) ==
    /\ sources[k].st \in {"playing", "stopping"}
    /\ LET a == [Cur EXCEPT !.sources[k] = [st |-> "done", onended |-> FALSE]]
       IN  Commit(IF sources[k].onended THEN onended(a) ELSE a)

\* the C18 mutant: the delta text is put in front of the accumulator
transcriptDeltaPrepends(s, delta) ==
    [s EXCEPT !.streamingTranscript = <<delta>> \o @]

\* setStreamingTranscript((prev) => prev + data.delta)
transcriptDelta(s, delta) ==
    [s EXCEPT !.streamingTranscript = Append(@, delta)]

\* the C19 mutant: a finalized transcript replaces the history
transcriptReplaces(s, role, text) ==
    [s EXCEPT !.streamingTranscript = IF role = "assistant" THEN <<>> ELSE @,
              !.transcripts = <<[role |-> role, text |-> text]>>]

\* a finalized transcript: one entry appended; the assistant's clears the
\* streaming accumulator
transcriptFinal(s, role, text) ==
    [s EXCEPT !.streamingTranscript = IF role = "assistant" THEN <<>> ELSE @,
              !.transcripts = Append(@, [role |-> role, text |-> text])]

\* handleMessage, case transcript.delta (isDelta: the type guard holds)
OnTranscriptDelta(i, isDelta, delta) ==
    /\ sockets[i].st = "open"
    /\ Commit(IF isDelta THEN transcriptDelta(Cur, delta) ELSE Cur)

\* handleMessage, case transcript (isTranscript: the type guard holds)
OnTranscript(i, isTranscript, role, text) ==
    /\ sockets[i].st = "open"
    /\ Commit(IF isTranscript THEN transcriptFinal(Cur, role, text) ELSE Cur)

\* A typed text: whitespace may surround its body (which is "" when the text
\* is blank); String.trim() leaves the body.
TypedTexts == [lead : BOOLEAN, body : Texts \cup {""}, trail : BOOLEAN]

trim(text) == text.body

\* the texts typed without surrounding whitespace
PlainTexts == {text \in TypedTexts : ~text.lead /\ ~text.trail}

\* variant: the text as typed is tested for being empty, not the trimmed text
sendTextMessageTestsTyped(s, text) ==
    LET trimmedText == trim(text) IN
    IF text = [lead |-> FALSE, body |-> "", trail |-> FALSE] THEN s
    ELSE IF WsOpen(s)
    THEN [s EXCEPT !.transcripts = Append(@, [role |-> "user", text |-> trimmedText]),
                   !.wsSent = Append(@, [type |-> "text.input", text |-> trimmedText])]
    ELSE onError(s, ErrSend)

\* sendTextMessage: the trimmed text is added to the history and sent, if it
\* is not empty and the current socket is open
sendTextMessage(s, text) ==
    LET trimmedText == trim(text) IN
    IF trimmedText = "" THEN s
    ELSE IF WsOpen(s)
    THEN [s EXCEPT !.transcripts = Append(@, [role |-> "user", text |-> trimmedText]),
                   !.wsSent = Append(@, [type |-> "text.input", text |-> trimmedText])]
    ELSE onError(s, ErrSend)

SendTextMessage(text) ==
    /\ mounted
    /\ Commit(sendTextMessage(Cur, text))

InitAllButPcm ==
    /\ status = "idle"
    /\ avatarStatus = "none"
    /\ speakingState = "idle"
    /\ streamingTranscript = <<>>
    /\ transcripts = <<>>
    /\ wsRef = 0
    /\ peerConnectionRef = 0
    /\ audioContextRef = FALSE
    /\ mediaStreamRef = FALSE
    /\ processorRef = FALSE
    /\ playbackContextRef = FALSE
    /\ audioQueueRef = <<>>
    /\ isPlayingRef = FALSE
    /\ currentSourceRef = 0
    /\ reconnectAttemptsRef = 0
    /\ shouldReconnectRef = FALSE
    /\ avatarSdpSentRef = FALSE
    /\ sockets = [i \in SocketIds |-> NoSocket]
    /\ pcs = [p \in PcIds |-> "unused"]
    /\ timers = <<>>
    /\ handlers = <<>>
    /\ liveStreams = 0
    /\ liveContexts = 0
    /\ answered = {}
    /\ sources = [k \in SegIds |-> NoSource]
    /\ nextSeg = 0
    /\ mounted = TRUE
    /\ reported = {}
    /\ gaveUp = FALSE
    /\ offersSent = 0
    /\ pcsCreated = 0
    /\ attemptLog = <<>>
    /\ intended = FALSE
    /\ userOps = 0
    /\ lastCall = "none"
    /\ wsSent = <<>>
    /\ InitApp
    /\ InitAppPlay
    /\ InitSvc
    /\ InitWorklet
    /\ InitPtt

Init ==
    /\ InitAllButPcm
    /\ pcm = NoPcm

(***************************************************************************)
(* Spec: the connection lifecycle.  Every socket event, user call and      *)
(* backoff timer; the peer runs voice-only sessions (session.ready carries *)
(* no ICE servers) and the browser has no AudioWorklet, so that a          *)
(* session.ready handler has the getUserMedia await only.                  *)
(***************************************************************************)
ConnScope ==
    /\ Len(handlers) <= MaxConnHandlers
    /\ Cardinality(UsedSockets(Cur)) <= MaxConnSockets
    /\ Len(timers) <= MaxConnTimers

Next ==
    \/ Connect /\ ConnScope'
    \/ Disconnect /\ ConnScope'
    \/ \E i \in SocketIds : SocketOpen(i) /\ ConnScope'
    \/ \E i \in SocketIds : SocketFail(i) /\ ConnScope'
    \/ \E i \in SocketIds : SocketPeerClose(i) /\ ConnScope'
    \/ \E i \in SocketIds : SocketClosed(i) /\ ConnScope'
    \/ \E k \in 1..MaxTimers : TimerFire(k) /\ ConnScope'
    \/ \E i \in SocketIds : OnSessionReady(i, FALSE) /\ ConnScope'
    \/ \E k \in 1..MaxHandlers : GumResolve(k, FALSE) /\ ConnScope'
    \/ \E k \in 1..MaxHandlers : GumReject(k) /\ ConnScope'
    \/ \E i \in SocketIds, hasMessage \in BOOLEAN :
          OnErrorMessage(i, hasMessage) /\ ConnScope'

vars == <<hookVars, appVars, appPlayVars, svcVars, audioVars>>

Spec == Init /\ [][Next]_vars

(***************************************************************************)
(* SpecMedia: session establishment.  All of the session.ready handler     *)
(* (microphone, worklet, peer connection, offer) under every user call;    *)
(* connections open and are closed by either side, at most MaxMediaSockets *)
(* sockets are created, and no backoff timer fires within the behaviour.   *)
(***************************************************************************)
MediaScope == Cardinality(UsedSockets(Cur)) <= MaxMediaSockets

NextMedia ==
    \/ Connect /\ MediaScope'
    \/ Disconnect /\ MediaScope'
    \/ \E i \in SocketIds : SocketOpen(i) /\ MediaScope'
    \/ \E i \in SocketIds : SocketPeerClose(i) /\ MediaScope'
    \/ \E i \in SocketIds : SocketClosed(i) /\ MediaScope'
    \/ \E i \in SocketIds, ice \in BOOLEAN : OnSessionReady(i, ice) /\ MediaScope'
    \/ \E k \in 1..MaxHandlers, worklet \in BOOLEAN :
          GumResolve(k, worklet) /\ MediaScope'
    \/ \E k \in 1..MaxHandlers : GumReject(k) /\ MediaScope'
    \/ \E k \in 1..MaxHandlers : WorkletSettled(k) /\ MediaScope'
    \/ \E k \in 1..MaxHandlers : IceComplete(k) /\ MediaScope'
    \/ \E k \in 1..MaxHandlers : OfferAbandoned(k) /\ MediaScope'
    \/ \E i \in SocketIds, hasMessage \in BOOLEAN :
          OnErrorMessage(i, hasMessage) /\ MediaScope'

SpecMedia == Init /\ [][NextMedia]_vars

(***************************************************************************)
(* SpecRetry: the reconnection loop run to its end.  connect() is called   *)
(* once and the session is never cancelled by the user; the first socket   *)
(* may serve a voice-only session before it drops; no reconnection socket  *)
(* is ever established.  Fairness: a pending timer fires, a connection     *)
(* that cannot be established fails, and the close event of a socket on    *)
(* which close() was called is dispatched.                                 *)
(***************************************************************************)
RetryScope == Len(handlers) <= MaxConnHandlers

RetryTimerFire == \E k \in 1..MaxTimers : TimerFire(k) /\ RetryScope'

RetryAttemptFails ==
    \E i \in SocketIds :
        sockets[i].kind = "reconnect" /\ SocketFail(i) /\ RetryScope'

RetrySocketClosed == \E i \in SocketIds : SocketClosed(i) /\ RetryScope'

NextRetry ==
    \/ userOps = 0 /\ Connect /\ RetryScope'
    \/ \E i \in SocketIds :
          sockets[i].kind = "connect" /\ SocketOpen(i) /\ RetryScope'
    \/ \E i \in SocketIds :
          sockets[i].kind = "connect" /\ SocketFail(i) /\ RetryScope'
    \/ \E i \in SocketIds : SocketPeerClose(i) /\ RetryScope'
    \/ RetryAttemptFails
    \/ RetrySocketClosed
    \/ RetryTimerFire
    \/ \E i \in SocketIds : OnSessionReady(i, FALSE) /\ RetryScope'
    \/ \E k \in 1..MaxHandlers : GumResolve(k, FALSE) /\ RetryScope'
    \/ \E k \in 1..MaxHandlers : GumReject(k) /\ RetryScope'
    \/ \E i \in SocketIds, hasMessage \in BOOLEAN :
          OnErrorMessage(i, hasMessage) /\ RetryScope'

SpecRetry ==
    /\ Init
    /\ [][NextRetry]_vars
    /\ WF_vars(RetryTimerFire)
    /\ WF_vars(RetryAttemptFails)
    /\ WF_vars(RetrySocketClosed)

(***************************************************************************)
(* SpecPlayback: voice-only playback.  Audio segments arrive on an open    *)
(* socket, sources end, the user barges in, the avatar connects or fails,  *)
(* and the user connects and disconnects; at most MaxPlaySockets sockets   *)
(* are created and the server never closes one.  The ended event of a     *)
(* source on which stop() was called is dispatched within the audio        *)
(* render quantum, so it has been dispatched by the time a WebSocket       *)
(* created later is established.                                           *)
(***************************************************************************)
EndedEventsDelivered == \A k \in SegIds : sources[k].st # "stopping"

PlayScope ==
    /\ Cardinality(UsedSockets(Cur)) <= MaxPlaySockets
    /\ Len(transcripts) = 0

NextPlayback ==
    \/ Connect /\ PlayScope'
    \/ Disconnect /\ PlayScope'
    \/ \E i \in SocketIds : SocketOpen(i) /\ EndedEventsDelivered /\ PlayScope'
    \/ \E i \in SocketIds : SocketClosed(i) /\ PlayScope'
    \/ \E i \in SocketIds, decodes \in BOOLEAN : OnAudioDelta(i, decodes) /\ PlayScope'
    \/ \E k \in SegIds : SourceEnded(k) /\ PlayScope'
    \/ \E i \in SocketIds : OnUserSpeakingStarted(i) /\ PlayScope'
    \/ \E i \in SocketIds : OnTranscriptDelta(i, TRUE, "a") /\ PlayScope'
    \/ \E i \in SocketIds : OnAvatarOutcome(i, TRUE) /\ PlayScope'

SpecPlayback == Init /\ [][NextPlayback]_vars

(***************************************************************************)
(* SpecTranscript: the transcript state across the life of a session.      *)
(* connect() is called in every state, the session is established (the     *)
(* browser has no AudioWorklet), transcripts stream in, the user barges    *)
(* in, the server drops the connection and the hook reconnects; at most    *)
(* MaxTextSockets sockets are created, one backoff timer and one           *)
(* session.ready handler are pending at a time, and no audio is played.    *)
(***************************************************************************)
TextScope ==
    /\ Cardinality(UsedSockets(Cur)) <= MaxTextSockets
    /\ Len(timers) <= 1
    /\ Len(handlers) <= 1

NextTranscript ==
    \/ ConnectCall /\ TextScope'
    \/ Disconnect /\ TextScope'
    \/ \E i \in SocketIds : SocketOpen(i) /\ TextScope'
    \/ \E i \in SocketIds : SocketPeerClose(i) /\ TextScope'
    \/ \E i \in SocketIds : SocketClosed(i) /\ TextScope'
    \/ \E k \in 1..MaxTimers : TimerFire(k) /\ TextScope'
    \/ \E i \in SocketIds : OnSessionReady(i, FALSE) /\ TextScope'
    \/ \E k \in 1..MaxHandlers : GumResolve(k, FALSE) /\ TextScope'
    \/ \E i \in SocketIds : OnUserSpeakingStarted(i) /\ TextScope'
    \/ \E i \in SocketIds, isDelta \in BOOLEAN, delta \in Texts :
          OnTranscriptDelta(i, isDelta, delta) /\ TextScope'
    \/ \E i \in SocketIds, isTranscript \in BOOLEAN, role \in Roles, text \in Texts :
          OnTranscript(i, isTranscript, role, text) /\ TextScope'
    \/ \E text \in PlainTexts : SendTextMessage(text) /\ TextScope'

SpecTranscript == Init /\ [][NextTranscript]_vars

(***************************************************************************)
(* SpecAnswer: the avatar negotiation of one connection to its end: the    *)
(* session is established with ICE servers (the browser has no             *)
(* AudioWorklet), the offer is sent, the answer arrives and is applied or  *)
(* rejected, the avatar connects or fails, and the user disconnects.       *)
(***************************************************************************)
AnswerScope == Cardinality(UsedSockets(Cur)) <= 1

NextAnswer ==
    \/ Connect /\ AnswerScope'
    \/ Disconnect /\ AnswerScope'
    \/ \E i \in SocketIds : SocketOpen(i) /\ AnswerScope'
    \/ \E i \in SocketIds : SocketClosed(i) /\ AnswerScope'
    \/ \E i \in SocketIds : OnSessionReady(i, TRUE) /\ AnswerScope'
    \/ \E k \in 1..MaxHandlers : GumResolve(k, FALSE) /\ AnswerScope'
    \/ \E k \in 1..MaxHandlers : IceComplete(k) /\ AnswerScope'
    \/ \E k \in 1..MaxHandlers : OfferAbandoned(k) /\ AnswerScope'
    \/ \E i \in SocketIds, hasSdp \in BOOLEAN : OnAvatarSdp(i, hasSdp) /\ AnswerScope'
    \/ \E k \in 1..MaxHandlers : SdpApplied(k) /\ AnswerScope'
    \/ \E k \in 1..MaxHandlers : SdpRejected(k) /\ AnswerScope'
    \/ \E i \in SocketIds, ok \in BOOLEAN : OnAvatarOutcome(i, ok) /\ AnswerScope'

SpecAnswer == Init /\ [][NextAnswer]_vars

(***************************************************************************)
(* SpecOffer: the hook's offer creation followed to its end.  Sessions     *)
(* with ICE servers are established and ended by the user.  Fairness: the  *)
(* browser settles getUserMedia, establishes a connection and dispatches   *)
(* the close event of a closed socket.  Whether ICE gathering ever reports *)
(* complete is up to the network, and a closed peer connection reports     *)
(* nothing more, so neither IceComplete nor OfferAbandoned is fair.        *)
(***************************************************************************)
OfferScope == Cardinality(UsedSockets(Cur)) <= MaxMediaSockets

OfferGumSettles == \E k \in 1..MaxHandlers : GumResolve(k, FALSE) /\ OfferScope'
OfferSocketOpens == \E i \in SocketIds : SocketOpen(i) /\ OfferScope'
OfferSocketClosed == \E i \in SocketIds : SocketClosed(i) /\ OfferScope'

NextOffer ==
    \/ Connect /\ OfferScope'
    \/ Disconnect /\ OfferScope'
    \/ OfferSocketOpens
    \/ OfferSocketClosed
    \/ \E i \in SocketIds : OnSessionReady(i, TRUE) /\ OfferScope'
    \/ OfferGumSettles
    \/ \E k \in 1..MaxHandlers : IceComplete(k) /\ OfferScope'
    \/ \E k \in 1..MaxHandlers : OfferAbandoned(k) /\ OfferScope'

SpecOffer ==
    /\ Init
    /\ [][NextOffer]_vars
    /\ WF_vars(OfferGumSettles)
    /\ WF_vars(OfferSocketOpens)
    /\ WF_vars(OfferSocketClosed)

(* ===================== properties of the hook ========================= *)

LiveSockets == {i \in SocketIds : Live(sockets[i])}
OpenPcs == {p \in PcIds : pcs[p] = "open"}

\* every continuation that can still run has run: no suspended handler, no
\* pending backoff timer, no close event still to be dispatched
NothingPending ==
    /\ handlers = <<>>
    /\ timers = <<>>
    /\ \A i \in SocketIds : sockets[i].st # "closing"

\* C1: at most one WebSocket of the hook is CONNECTING or OPEN and at most one
\* RTCPeerConnection is un-closed.  (Replacing a live socket in wsRef leaves the
\* old and the new socket live together, so this covers the replacement too.)
C1_OneChannelOneSession ==
    /\ Cardinality(LiveSockets) <= 1
    /\ Cardinality(OpenPcs) <= 1

\* C2: between two resets of the negotiation latch (connect() or cleanup()) at
\* most one avatar.sdp offer is sent and at most one peer connection is created.
C2_OneOfferPerLifecycle ==
    /\ offersSent <= 1
    /\ pcsCreated <= 1

\* C4: an unexpected closure of the control socket (a close event not caused
\* by close(), after connect() with no disconnect() since) does not set
\* SessionStatus to disconnected and enters the backoff loop, as long as the
\* attempt budget is not exhausted.
UnexpectedClosure(i) ==
    /\ intended
    /\ wsRef = i
    /\ Live(sockets[i])
    /\ sockets'[i].st = "closed"

C4_ClosureEntersBackoff ==
    [][\A i \in SocketIds :
          (UnexpectedClosure(i) /\ reconnectAttemptsRef < MaxReconnectAttempts)
              => (status' # "disconnected" /\ Len(timers') > Len(timers))]_vars

\* C5: while the control socket keeps failing, the i-th reconnection attempt
\* (i = 0, 1, ...) is made after a delay of baseDelay * 2^i: one attempt per
\* failure, the delays strictly increasing.
C5_DelaysDouble ==
    \A k \in 1..Len(attemptLog) : attemptLog[k] = baseDelay * (2 ^ (k - 1))

\* C6: the reconnection loop opens at most maxReconnectAttempts sockets between
\* a connect() and the next connect() or disconnect(), and reconnectAttemptsRef
\* never exceeds maxReconnectAttempts.
C6_AttemptsBounded ==
    /\ Len(attemptLog) <= MaxReconnectAttempts
    /\ reconnectAttemptsRef <= MaxReconnectAttempts

\* C7: if every reconnection attempt fails, then once the loop has been entered
\* the terminal failure is eventually reported through onError and
\* SessionStatus becomes disconnected.
LoopEntered == timers # <<>> \/ attemptLog # <<>>
TerminalFailure == gaveUp /\ status = "disconnected"

C7_ExhaustionEndsDisconnected == LoopEntered ~> TerminalFailure

C7_Witness ==
    /\ TerminalFailure
    /\ NothingPending
    /\ LiveSockets = {}
    /\ Len(attemptLog) >= MaxReconnectAttempts

\* C8: a backoff timer that was pending when disconnect() was called creates
\* no WebSocket when it fires.
C8_CancelledTimerCreatesNothing ==
    \A i \in SocketIds : ~sockets[i].stale

\* C9: the close event of a socket closed by disconnect() starts no backoff
\* timer and closes no other socket.
CloseEventOfDisconnect(i) ==
    /\ sockets[i].st = "closing"
    /\ sockets[i].why = "disconnect"
    /\ sockets'[i].st = "closed"

C9_LateCloseIsHarmless ==
    [][\A i \in SocketIds :
          CloseEventOfDisconnect(i) =>
              /\ Len(timers') <= Len(timers)
              /\ \A j \in SocketIds \ {i} : Live(sockets[j]) => Live(sockets'[j])]_vars

\* C10: once disconnect() has been called and everything pending has run, no
\* microphone stream, capture context, playback source, peer connection or
\* WebSocket is live.
C10_DisconnectReleasesAll ==
    (userOps = 2 /\ ~intended /\ mounted /\ NothingPending) =>
        /\ liveStreams = 0
        /\ liveContexts = 0
        /\ currentSourceRef = 0
        /\ OpenPcs = {}
        /\ LiveSockets = {}

\* C11: when a reconnection attempt creates its WebSocket, the capture
\* pipeline, the playback queue and the peer connection of the previous
\* connection are released; no two capture graphs are live together.
ReconnectSocketCreated ==
    \E i \in SocketIds : /\ sockets[i].st = "unused"
                         /\ sockets'[i].st = "connecting"
                         /\ sockets'[i].kind = "reconnect"

PreviousConnectionReleased ==
    /\ liveStreams = 0
    /\ liveContexts = 0
    /\ ~processorRef
    /\ audioQueueRef = <<>>
    /\ ~playbackContextRef
    /\ OpenPcs = {}

C11_ReconnectStartsClean ==
    [][/\ ReconnectSocketCreated => PreviousConnectionReleased
       /\ liveStreams' <= 1
       /\ liveContexts' <= 1]_vars

\* C12: audio capture is started at most once: while a session.ready handler
\* is suspended inside startAudioCapture, or capture is set up, no other
\* handler is inside startAudioCapture.
CapturesStarted ==
    Cardinality({k \in 1..Len(handlers) : handlers[k].stage \in {"gum", "worklet"}})

C12_CaptureStartedOnce ==
    /\ CapturesStarted + (IF audioContextRef THEN 1 ELSE 0) <= 1
    /\ liveStreams <= 1
    /\ liveContexts <= 1

\* C13: inbound messages are handled one at a time: no message handler starts
\* while an earlier handler is suspended at an await.
MessageHandlerStarts ==
    \E i \in SocketIds :
        \/ \E ice \in BOOLEAN : OnSessionReady(i, ice)
        \/ \E hasMessage \in BOOLEAN : OnErrorMessage(i, hasMessage)

C13_MessagesSerialized ==
    [][handlers # <<>> => ~MessageHandlerStarts]_vars

\* C14: after every user.speaking.started message, whatever was queued or
\* playing, the queue is empty, no segment is playing, the streaming
\* accumulator is empty and the speaking state is user.
Playing(srcs) == {k \in SegIds : srcs[k].st = "playing"}

Started(srcs) == {k \in SegIds : srcs[k].st \in {"playing", "stopping", "done"}}

QueueInOrder(s) ==
    /\ \A j \in 1..(Len(s.audioQueueRef) - 1) :
           s.audioQueueRef[j] < s.audioQueueRef[j + 1]
    /\ \A k \in 1..s.nextSeg : s.sources[k].st = "none" <=> InQueue(s, k)
    /\ \A k \in Started(s.sources) : ~InQueue(s, k)
    /\ s.audioQueueRef # <<>> => Playing(s.sources) # {}

C16_PlayedInArrivalOrder ==
    [][/\ QueueInOrder([audioQueueRef |-> audioQueueRef', nextSeg |-> nextSeg',
                        sources |-> sources'])
       /\ \A k \in SegIds :
             (sources[k].st # "playing" /\ sources'[k].st = "playing") =>
                 /\ sources[k].st = "none"
                 /\ \A j \in 1..(k - 1) : sources[j].st # "none"]_vars

\* the first segment has ended, the second was started after it and the
\* third waits in the queue
C16_Witness ==
    /\ sources[1].st = "done"
    /\ sources[2].st = "playing"
    /\ currentSourceRef = 2
    /\ audioQueueRef = <<3>>

\* C17: while the avatar media status is connected, an audio.delta message
\* enqueues no segment for local playback.
C17_NoLocalAudioWithAvatar ==
    [][avatarStatus = "connected" =>
          (nextSeg' = nextSeg /\ Len(audioQueueRef') <= Len(audioQueueRef))]_vars

\* C18: every transcript.delta appends its text to the end of the streaming
\* accumulator, so the accumulator is the concatenation in arrival order of the
\* deltas since it was last cleared; a finalized assistant transcript clears
\* it and appends exactly one entry with the finalized text; a finalized user
\* transcript appends one entry and leaves the accumulator unchanged.
C18_AccumulatorAndFinalization ==
    [][\A i \in SocketIds, x \in Texts :
          /\ OnTranscriptDelta(i, TRUE, x) =>
                /\ streamingTranscript' = streamingTranscript \o <<x>>
                /\ transcripts' = transcripts
          /\ OnTranscript(i, TRUE, "assistant", x) =>
                /\ streamingTranscript' = <<>>
                /\ transcripts' = transcripts \o <<[role |-> "assistant", text |-> x]>>
          /\ OnTranscript(i, TRUE, "user", x) =>
                /\ streamingTranscript' = streamingTranscript
                /\ transcripts' = transcripts \o <<[role |-> "user", text |-> x]>>]_vars

\* an assistant and a user transcript were finalized and two deltas have
\* accumulated since
C18_Witness ==
    /\ transcripts = <<[role |-> "assistant", text |-> "a"],
                       [role |-> "user", text |-> "b"]>>
    /\ streamingTranscript = <<"a", "b">>

\* C19: the transcript history is append-only: every step other than a call
\* of connect() leaves the old list a prefix of the new one; in particular an
\* unexpected closure and the reconnection after it preserve the history.
IsPrefix(old, new) ==
    /\ Len(old) <= Len(new)
    /\ \A j \in 1..Len(old) : new[j] = old[j]

C19_HistoryAppendOnly ==
    [][lastCall' # "connect" => IsPrefix(transcripts, transcripts')]_vars

\* the connection was lost and the reconnection socket is being established
\* (no socket is open): the history received before the closure is intact
C19_Witness ==
    /\ Len(transcripts) = 2
    /\ wsRef # 0
    /\ sockets[wsRef].kind = "reconnect"
    /\ sockets[wsRef].st = "connecting"
    /\ \A j \in SocketIds : sockets[j].st # "open"

\* C20: connect() called while the status is connecting or connected is a
\* no-op: no WebSocket is created, the transcripts and the accumulator are
\* not cleared, and the reconnection counter and flags are unchanged.
C20_ConnectWhileBusyIsNoOp ==
    [][(lastCall' = "connect" /\ status \in {"connecting", "connected"}) =>
          UNCHANGED <<sockets, wsRef, status, transcripts, streamingTranscript,
                      reconnectAttemptsRef, shouldReconnectRef, avatarSdpSentRef,
                      timers>>]_vars

\* connect() has been called on a connected session that holds transcripts
C20_Witness ==
    /\ lastCall = "connect"
    /\ status = "connected"
    /\ transcripts # <<>>
    /\ streamingTranscript # <<>>

\* C21: when the control socket opens, on the initial connect and on a
\* reconnection alike, SessionStatus is connected once the open handler has
\* run, whether or not session.ready has arrived.
C21_OpenSetsConnected ==
    [][\A i \in SocketIds : SocketOpen(i) => status' = "connected"]_vars

\* C22: a media negotiation step (AvatarMediaStatus becoming connecting, a
\* peer connection being created, an offer being sent) happens only while
\* SessionStatus is connected.
PcCreated == \E p \in PcIds : pcs[p] = "unused" /\ pcs'[p] = "open"

NegotiationStep ==
    \/ avatarStatus # "connecting" /\ avatarStatus' = "connecting"
    \/ PcCreated
    \/ offersSent' > offersSent

C22_NegotiationAfterReady ==
    [][NegotiationStep => status' = "connected"]_vars

\* C23: the handler of a session.ready message without ICE servers sets
\* AvatarMediaStatus to none when it has finished, and no step of that
\* handler creates a peer connection or sends an avatar.sdp message.
VoiceOnlyHandlerStep ==
    \/ \E i \in SocketIds : OnSessionReady(i, FALSE)
    \/ \E k \in 1..Len(handlers) :
          /\ ~handlers[k].ice
          /\ \/ \E worklet \in BOOLEAN : GumResolve(k, worklet)
             \/ GumReject(k)
             \/ WorkletSettled(k)

\* the step is the last one of its handler: capture was already active, or
\* the suspended handler has left the list
VoiceOnlyHandlerDone ==
    IF \E i \in SocketIds : OnSessionReady(i, FALSE)
    THEN audioContextRef
    ELSE Len(handlers') < Len(handlers)

C23_NoIceNoNegotiation ==
    [][VoiceOnlyHandlerStep =>
          /\ ~PcCreated
          /\ offersSent' = offersSent
          /\ VoiceOnlyHandlerDone => avatarStatus' = "none"]_vars

\* an avatar session was being negotiated and a later session.ready without
\* ICE servers has been handled to the end: the status is back to none
C23_Witness ==
    /\ status = "connected"
    /\ avatarStatus = "none"
    /\ handlers = <<>>
    /\ avatarSdpSentRef
    /\ OpenPcs # {}
    /\ WsOpen(Cur)

\* C24: when applying the remote answer of an avatar.sdp message fails,
\* AvatarMediaStatus becomes failed, and SessionStatus, the control socket and
\* the capture pipeline are left unchanged.
C24_AnswerFailureMarksAvatarFailed ==
    [][(\E k \in 1..Len(handlers) : SdpRejected(k)) =>
          /\ avatarStatus' = "failed"
          /\ UNCHANGED <<status, sockets, wsRef, mediaStreamRef, audioContextRef,
                         processorRef, liveStreams, liveContexts>>]_vars

\* C25: every error message from the peer, with or without a string message
\* field, sets SessionStatus to error and is reported through onError.
C25_PeerErrorSurfaces ==
    [][(\E i \in SocketIds, hasMessage \in BOOLEAN : OnErrorMessage(i, hasMessage)) =>
          /\ status' = "error"
          /\ reported' # {}]_vars

\* C26: when the socket created by connect() fails before it has opened,
\* SessionStatus is error once its error and close events have been handled,
\* and no reconnection is scheduled that would overwrite it with connecting.
FailsBeforeOpen(i) ==
    /\ sockets[i].kind = "connect"
    /\ sockets[i].st = "connecting"
    /\ SocketFail(i)

C26_InitialFailureStaysError ==
    [][\A i \in SocketIds :
          FailsBeforeOpen(i) => (status' = "error" /\ timers' = timers)]_vars

\* C27: when getUserMedia rejects during session.ready handling, the failure
\* is reported through onError, SessionStatus and the control socket are left
\* as they are, the handler registers no capture resource, and the avatar
\* negotiation still starts when ICE servers were supplied.
C27_MicFailureKeepsSession ==
    [][\A k \in 1..Len(handlers) :
          GumReject(k) =>
              /\ reported' = {ErrMic}
              /\ UNCHANGED <<status, sockets, wsRef, mediaStreamRef, audioContextRef,
                             processorRef, liveStreams, liveContexts>>
              /\ (handlers[k].ice /\ ~avatarSdpSentRef) =>
                     (PcCreated /\ avatarStatus' = "connecting")]_vars

\* the microphone was refused in a session with ICE servers: the session is
\* connected, nothing captures, and the avatar negotiation is under way
C27_Witness ==
    /\ reported = {ErrMic}
    /\ status = "connected"
    /\ WsOpen(Cur)
    /\ ~mediaStreamRef /\ ~audioContextRef /\ ~processorRef
    /\ liveStreams = 0
    /\ avatarStatus = "connecting"
    /\ OpenPcs # {}

\* C28: every offer creation completes: a createAndSendOffer call that waits
\* for ICE gathering leaves that wait, whether or not gathering completes.
OfferInProgress == \E k \in 1..Len(handlers) : handlers[k].stage = "ice"

C28_OfferCreationTerminates == OfferInProgress ~> ~OfferInProgress

(* ================= Part II: the service-based orchestrator ============ *)

UsedAppSessions == {a \in AppIds : vlWs[a] # "unused"}
UsedAppPcs == {p \in AppPcIds : appPcs[p].st # "unused"}

\* WebRTCService.close() on the peer connection p (0: this.pc is null)
ClosePc(pcsv, p) == IF p # 0 THEN [pcsv EXCEPT ![p].st = "closed"] ELSE pcsv

\* VoiceLiveService.disconnect() on the socket state st: WebSocket.close()
CloseWs(st) == IF st \in {"connecting", "open"} THEN "closing" ELSE st

\* VoiceLiveService.send: the message leaves only on an OPEN socket
CanSend(a) == a # 0 /\ vlWsField[a] /\ vlWs[a] = "open"

(* ------------------- voice-only playback of App.tsx ------------------ *)

AppPlay ==
    [speaking |-> appSpeakingState, queue |-> appAudioQueue,
     isPlaying |-> appIsPlaying, current |-> appCurrentSource,
     sources |-> appSources, nextSeg |-> appNextSeg]

SetAppPlay(p) ==
    /\ appSpeakingState' = p.speaking
    /\ appAudioQueue' = p.queue
    /\ appIsPlaying' = p.isPlaying
    /\ appCurrentSource' = p.current
    /\ appSources' = p.sources
    /\ appNextSeg' = p.nextSeg
    /\ UNCHANGED vlAvatarSeen

\* playNextInQueue of App.tsx: an empty queue leaves currentSourceRef alone
appPlayNextInQueue(p) ==
    IF p.queue = <<>>
    THEN [p EXCEPT !.isPlaying = FALSE]
    ELSE LET k == Head(p.queue)
         IN  [p EXCEPT !.isPlaying = TRUE,
                       !.queue = Tail(@),
                       !.current = k,
                       !.sources[k] = [st |-> "playing", onended |-> TRUE]]

\* queueAudioForPlayback: decode, push, start if idle; a decoding error is caught
queueAudioForPlayback(p, decodes) ==
    LET k == p.nextSeg + 1
        b == [p EXCEPT !.nextSeg = k, !.queue = Append(@, k)]
    IN  IF ~decodes THEN p
        ELSE IF ~b.isPlaying THEN appPlayNextInQueue(b)
        ELSE b

\* stopAudioPlayback of App.tsx: the queue is emptied and the current source
\* stopped; its onended handler stays attached
appStopAudioPlayback(p) ==
    LET dropped == [k \in SegIds |->
                       IF \E j \in 1..Len(p.queue) : p.queue[j] = k
                       THEN [p.sources[k] EXCEPT !.st = "dropped"]
                       ELSE p.sources[k]]
    IN  [p EXCEPT !.queue = <<>>,
                  !.sources = IF p.current # 0
                              THEN [dropped EXCEPT ![p.current] = StopSource(@)]
                              ELSE dropped,
                  !.current = 0,
                  !.isPlaying = FALSE]

\* the onended callback installed by playNextInQueue of App.tsx
appOnended(p) == appPlayNextInQueue([p EXCEPT !.current = 0])

\* handleVoiceLiveMessage, case audio.delta: the avatar status tested is the
\* one the registered handler closed over
AppAudioDelta(a, decodes) ==
    /\ vlWs[a] = "open"
    /\ appNextSeg < MaxSegments
    /\ SetAppPlay(IF vlAvatarSeen[a] # "connected"
                  THEN queueAudioForPlayback(AppPlay, decodes)
                  ELSE AppPlay)
    /\ UNCHANGED <<appVars, hookVars, svcVars, audioVars>>

\* handleVoiceLiveMessage, case user.speaking.started
AppUserSpeakingStarted(a) ==
    /\ vlWs[a] = "open"
    /\ SetAppPlay(appStopAudioPlayback([AppPlay EXCEPT !.speaking = "user"]))
    /\ UNCHANGED <<appVars, hookVars, svcVars, audioVars>>

\* the ended event of a source of App.tsx: it finished, or it was stopped
AppSourceEnded(k) ==
    /\ appSources[k].st \in {"playing", "stopping"}
    /\ LET p == [AppPlay EXCEPT !.sources[k] = [st |-> "done", onended |-> FALSE]]
       IN  SetAppPlay(IF appSources[k].onended THEN appOnended(p) ELSE p)
    /\ UNCHANGED <<appVars, hookVars, svcVars, audioVars>>

(* ------------------ push-to-talk of the orchestrator ------------------ *)

\* The push-to-talk state as one record, so that handlers compose as functions.
Ptt ==
    [isTalkingRef |-> isTalkingRef, isPushing |-> isPushing,
     streamRef |-> streamRef, appProcessorRef |-> appProcessorRef,
     captures |-> captures, pendingCaptures |-> pendingCaptures, wire |-> wire]

SetPtt(p) ==
    /\ p.pendingCaptures <= MaxPendingCaptures
    /\ \A a \in AppIds : Len(p.wire[a]) <= MaxWire
    /\ isTalkingRef' = p.isTalkingRef
    /\ isPushing' = p.isPushing
    /\ streamRef' = p.streamRef
    /\ appProcessorRef' = p.appProcessorRef
    /\ captures' = p.captures
    /\ pendingCaptures' = p.pendingCaptures
    /\ wire' = p.wire

\* VoiceLiveService.send through voiceLiveRef.current?.
vlSend(p, type) ==
    IF CanSend(voiceLiveRef)
    THEN [p EXCEPT !.wire[voiceLiveRef] = Append(@, type)]
    ELSE p

\* startAudioCapture up to its awaits (ensureAudioContextResumed, getUserMedia)
startAudioCapture(p) == [p EXCEPT !.pendingCaptures = @ + 1]

\* stopAudioCapture: the stream and the processor the refs hold are released
stopAudioCapture(p) ==
    LET a == IF p.streamRef # 0
             THEN [p EXCEPT !.captures[p.streamRef].stream = "stopped",
                            !.streamRef = 0]
             ELSE p
    IN  IF a.appProcessorRef # 0
        THEN [a EXCEPT !.captures[a.appProcessorRef].processor = "disconnected",
                       !.appProcessorRef = 0]
        ELSE a

\* startLiveSession, from the connect buttons (shown when DISCONNECTED or ERROR)
startLiveSession ==
    /\ connectionState \in {"DISCONNECTED", "ERROR"}
    /\ LET id == Cardinality(UsedAppSessions) + 1 IN
       /\ id <= MaxAppSessions
       /\ connectionState' = "CONNECTING"
       /\ voiceLiveRef' = id
       /\ webrtcRef' = id
       /\ vlWs' = [vlWs EXCEPT ![id] = "connecting"]
       /\ vlWsField' = [vlWsField EXCEPT ![id] = TRUE]
       /\ vlAvatarSeen' = [vlAvatarSeen EXCEPT ![id] = appAvatarStatus]
    /\ UNCHANGED <<appAvatarStatus, rtcPc, appPcs, chains, sdpSent>>
    /\ UNCHANGED hookVars
    /\ UNCHANGED <<svcVars, audioVars>>
    /\ UNCHANGED <<appSpeakingState, appAudioQueue, appIsPlaying, appCurrentSource,
                   appSources, appNextSeg>>

\* stopLiveSession, from handleConnectToggle when CONNECTED
stopLiveSession ==
    /\ connectionState = "CONNECTED"
    /\ vlWs' = IF voiceLiveRef # 0 /\ vlWsField[voiceLiveRef]
               THEN [vlWs EXCEPT ![voiceLiveRef] = CloseWs(@)] ELSE vlWs
    /\ vlWsField' = IF voiceLiveRef # 0
                    THEN [vlWsField EXCEPT ![voiceLiveRef] = FALSE] ELSE vlWsField
    /\ voiceLiveRef' = 0
    /\ appPcs' = IF webrtcRef # 0 THEN ClosePc(appPcs, rtcPc[webrtcRef]) ELSE appPcs
    /\ rtcPc' = IF webrtcRef # 0 THEN [rtcPc EXCEPT ![webrtcRef] = 0] ELSE rtcPc
    /\ webrtcRef' = 0
    /\ SetAppPlay([appStopAudioPlayback(AppPlay) EXCEPT !.speaking = "idle"])
    /\ SetPtt([stopAudioCapture(Ptt) EXCEPT !.isTalkingRef = FALSE])
    /\ connectionState' = "DISCONNECTED"
    /\ appAvatarStatus' = "none"
    /\ UNCHANGED <<chains, sdpSent>>
    /\ UNCHANGED hookVars
    /\ UNCHANGED <<svcVars, pcmVars, buttonDown, spaceDown>>

\* VoiceLiveService ws.onopen: the connect() promise resolves
AppSocketOpen(a) ==
    /\ vlWs[a] = "connecting"
    /\ vlWs' = [vlWs EXCEPT ![a] = "open"]
    /\ UNCHANGED <<connectionState, appAvatarStatus, voiceLiveRef, webrtcRef,
                   vlWsField, rtcPc, appPcs, chains, sdpSent>>
    /\ UNCHANGED hookVars
    /\ UNCHANGED <<svcVars, audioVars>>
    /\ UNCHANGED appPlayVars

\* The socket goes down by itself (error and close, or close only), or the
\* close event of a socket closed by disconnect() arrives: ws.onerror rejects
\* a pending connect() (startLiveSession sets ERROR), then ws.onclose notifies
\* connection.closed and the handler sets DISCONNECTED.
AppSocketClose(a) ==
    /\ vlWs[a] \in {"connecting", "open", "closing"}
    /\ vlWs' = [vlWs EXCEPT ![a] = "closed"]
    /\ connectionState' = "DISCONNECTED"
    /\ UNCHANGED <<appAvatarStatus, voiceLiveRef, webrtcRef, vlWsField, rtcPc,
                   appPcs, chains, sdpSent>>
    /\ UNCHANGED hookVars
    /\ UNCHANGED <<svcVars, audioVars>>
    /\ UNCHANGED appPlayVars

\* handleVoiceLiveMessage, case session.ready; ice: ice_servers is non-empty.
\* webrtc.init closes the instance's peer connection and creates a new one,
\* and createOffer() starts on the new one.
AppSessionReady(a, ice) ==
    /\ vlWs[a] = "open"
    /\ connectionState' = "CONNECTED"
    /\ IF ice
       THEN /\ appAvatarStatus' = "connecting"
            /\ IF webrtcRef # 0
               THEN LET id == Cardinality(UsedAppPcs) + 1 IN
                    /\ id <= MaxAppPCs
                    /\ Len(chains) < MaxChains
                    /\ appPcs' = [ClosePc(appPcs, rtcPc[webrtcRef]) EXCEPT
                                     ![id] = [st |-> "open", desc |-> FALSE]]
                    /\ rtcPc' = [rtcPc EXCEPT ![webrtcRef] = id]
                    /\ chains' = Append(chains, [svc |-> webrtcRef, pc |-> id,
                                                 stage |-> "offer"])
               ELSE UNCHANGED <<appPcs, rtcPc, chains>>
       ELSE /\ appAvatarStatus' = "none"
            /\ UNCHANGED <<appPcs, rtcPc, chains>>
    /\ UNCHANGED <<voiceLiveRef, webrtcRef, vlWs, vlWsField, sdpSent>>
    /\ UNCHANGED hookVars
    /\ UNCHANGED <<svcVars, audioVars>>
    /\ UNCHANGED appPlayVars

\* handleVoiceLiveMessage, case error
AppErrorMessage(a) ==
    /\ vlWs[a] = "open"
    /\ connectionState' = "ERROR"
    /\ UNCHANGED <<appAvatarStatus, voiceLiveRef, webrtcRef, vlWs, vlWsField, rtcPc,
                   appPcs, chains, sdpSent>>
    /\ UNCHANGED hookVars
    /\ UNCHANGED <<svcVars, audioVars>>
    /\ UNCHANGED appPlayVars

\* WebRTCService.createOffer: createOffer and setLocalDescription have
\* succeeded on the peer connection the call started with
OfferCreated(k) ==
    /\ k \in 1..Len(chains)
    /\ chains[k].stage = "offer"
    /\ rtcPc[chains[k].svc] = chains[k].pc
    /\ appPcs' = [appPcs EXCEPT ![chains[k].pc].desc = TRUE]
    /\ chains' = [chains EXCEPT ![k].stage = "gather"]
    /\ UNCHANGED <<connectionState, appAvatarStatus, voiceLiveRef, webrtcRef, vlWs,
                   vlWsField, rtcPc, sdpSent>>
    /\ UNCHANGED hookVars
    /\ UNCHANGED <<svcVars, audioVars>>
    /\ UNCHANGED appPlayVars

\* WebRTCService.createOffer rejects: its peer connection was closed or
\* replaced under it; the catch in App.tsx sets the avatar status to failed
OfferFailed(k) ==
    /\ k \in 1..Len(chains)
    /\ chains[k].stage = "offer"
    /\ rtcPc[chains[k].svc] # chains[k].pc
    /\ chains' = RemoveAt(chains, k)
    /\ appAvatarStatus' = "failed"
    /\ UNCHANGED <<connectionState, voiceLiveRef, webrtcRef, vlWs, vlWsField, rtcPc,
                   appPcs, sdpSent>>
    /\ UNCHANGED hookVars
    /\ UNCHANGED <<svcVars, audioVars>>
    /\ UNCHANGED appPlayVars

\* waitForIceGathering resolves (gathering complete, or the 5 s timeout): the
\* SDP is read from this.pc, the instance's peer connection at that moment,
\* and handed to voiceLiveRef.current?.sendAvatarSdp
GatherDone(k) ==
    /\ k \in 1..Len(chains)
    /\ chains[k].stage = "gather"
    /\ chains' = RemoveAt(chains, k)
    /\ LET cur == rtcPc[chains[k].svc] IN
       IF cur # 0 /\ appPcs[cur].desc
       THEN /\ sdpSent' = IF CanSend(voiceLiveRef)
                          THEN [sdpSent EXCEPT ![voiceLiveRef] = @ + 1]
                          ELSE sdpSent
            /\ UNCHANGED appAvatarStatus
       ELSE /\ appAvatarStatus' = "failed"
            /\ UNCHANGED sdpSent
    /\ UNCHANGED <<connectionState, voiceLiveRef, webrtcRef, vlWs, vlWsField, rtcPc,
                   appPcs>>
    /\ UNCHANGED hookVars
    /\ UNCHANGED <<svcVars, audioVars>>
    /\ UNCHANGED appPlayVars

(* ------------------ VoiceLiveService message handlers ----------------- *)

InSeq(seq, x) == \E j \in 1..Len(seq) : seq[j] = x

\* Set.prototype.add: a new element goes last, a present one keeps its place
SetAdd(seq, x) == IF InSeq(seq, x) THEN seq ELSE Append(seq, x)

\* Set.prototype.delete
SetDelete(seq, x) == SelectSeq(seq, LAMBDA y : y # x)

\* variant: the first handler that throws ends the notification
notifyHandlersUnprotected(hs, throwers) ==
    LET firstThrow == IF \E j \in 1..Len(hs) : hs[j] \in throwers
                      THEN CHOOSE j \in 1..Len(hs) :
                               /\ hs[j] \in throwers
                               /\ \A i \in 1..(j - 1) : hs[i] \notin throwers
                      ELSE Len(hs)
    IN  [j \in 1..firstThrow |-> [h |-> hs[j], threw |-> hs[j] \in throwers]]

\* notifyHandlers: forEach over the Set, each call in its own try/catch
notifyHandlers(hs, throwers) ==
    [j \in 1..Len(hs) |-> [h |-> hs[j], threw |-> hs[j] \in throwers]]

\* onMessage(handler): the handler is added and an unsubscribe function returned
SvcOnMessage(h) ==
    /\ messageHandlers' = SetAdd(messageHandlers, h)
    /\ unsubscribers' = unsubscribers \cup {h}
    /\ notified' = <<>>
    /\ UNCHANGED <<hookVars, appVars, appPlayVars, audioVars>>

\* a function returned by onMessage(h) is called
SvcUnsubscribe(h) ==
    /\ h \in unsubscribers
    /\ messageHandlers' = SetDelete(messageHandlers, h)
    /\ notified' = <<>>
    /\ UNCHANGED unsubscribers
    /\ UNCHANGED <<hookVars, appVars, appPlayVars, audioVars>>

\* ws.onmessage: the data is parsed and handed to handleMessage; data that
\* does not parse is dropped.  throwers: the handlers that throw on this message
SvcInbound(parses, throwers) ==
    /\ notified' = IF parses THEN notifyHandlers(messageHandlers, throwers) ELSE <<>>
    /\ UNCHANGED <<messageHandlers, unsubscribers>>
    /\ UNCHANGED <<hookVars, appVars, appPlayVars, audioVars>>

(***************************************************************************)
(* SpecService: one VoiceLiveService instance with up to MaxSvcHandlers    *)
(* handler functions that subscribe, unsubscribe and may throw.            *)
(***************************************************************************)
NextService ==
    \/ \E h \in SvcHandlerIds : SvcOnMessage(h)
    \/ \E h \in SvcHandlerIds : SvcUnsubscribe(h)
    \/ \E parses \in BOOLEAN, throwers \in SUBSET SvcHandlerIds :
          SvcInbound(parses, throwers)

SpecService == Init /\ [][NextService]_vars

(***************************************************************************)
(* SpecApp: sessions of the service-based orchestrator.                    *)
(***************************************************************************)
NextApp ==
    \/ startLiveSession
    \/ stopLiveSession
    \/ \E a \in AppIds : AppSocketOpen(a)
    \/ \E a \in AppIds : AppSocketClose(a)
    \/ \E a \in AppIds, ice \in BOOLEAN : AppSessionReady(a, ice)
    \/ \E a \in AppIds : AppErrorMessage(a)
    \/ \E k \in 1..MaxChains : OfferCreated(k)
    \/ \E k \in 1..MaxChains : OfferFailed(k)
    \/ \E k \in 1..MaxChains : GatherDone(k)

SpecApp == Init /\ [][NextApp]_vars

(***************************************************************************)
(* SpecAppPlayback: voice-only playback of the orchestrator: sessions are  *)
(* started and stopped, audio segments arrive, sources end and the user    *)
(* barges in.                                                              *)
(***************************************************************************)
NextAppPlayback ==
    \/ startLiveSession
    \/ stopLiveSession
    \/ \E a \in AppIds : AppSocketOpen(a)
    \/ \E a \in AppIds : AppSessionReady(a, FALSE)
    \/ \E a \in AppIds, decodes \in BOOLEAN : AppAudioDelta(a, decodes)
    \/ \E a \in AppIds : AppUserSpeakingStarted(a)
    \/ \E k \in SegIds : AppSourceEnded(k)

SpecAppPlayback == Init /\ [][NextAppPlayback]_vars

(* ============ properties of the service-based orchestrator =========== *)

\* C3: a session of the service-based orchestrator emits at most one avatar.sdp
\* message, however many session.ready messages with ICE servers it receives.
C3_OneOfferPerSession == \A a \in AppIds : sdpSent[a] <= 1

\* C15: after a flush the segments queued before it are never started and the
\* late ended event of the stopped source leaves the segment enqueued after
\* the flush alone: whatever plays is the source currentSourceRef refers to,
\* so one segment at most plays and its reference is never cleared under it.
C15_FlushLeavesOnlyNewSegment ==
    \A k \in SegIds : appSources[k].st = "playing" => appCurrentSource = k

\* C29: WebRTCService.init called while the instance holds a peer connection
\* fails and leaves that peer connection as it is.
InitWhileActive ==
    /\ webrtcRef # 0
    /\ rtcPc[webrtcRef] # 0
    /\ \E a \in AppIds : AppSessionReady(a, TRUE)

C29_InitWhileActiveFails ==
    [][InitWhileActive => (rtcPc' = rtcPc /\ appPcs' = appPcs)]_vars

\* C30: for every inbound message every subscribed handler is called exactly
\* once, in registration order, also after a handler has thrown.
SvcInboundStep ==
    \E throwers \in SUBSET SvcHandlerIds : SvcInbound(TRUE, throwers)

C30_AllHandlersNotifiedInOrder ==
    [][SvcInboundStep =>
          /\ Len(notified') = Len(messageHandlers)
          /\ \A j \in 1..Len(messageHandlers) : notified'[j].h = messageHandlers[j]]_vars

\* three handlers subscribed, the second was unsubscribed; a message was
\* delivered to the first, which threw, and then to the third
C30_Witness ==
    /\ messageHandlers = <<1, 3>>
    /\ unsubscribers = {1, 2, 3}
    /\ notified = <<[h |-> 1, threw |-> TRUE], [h |-> 3, threw |-> FALSE]>>

(* ============ Part III: the microphone capture path ==================== *)

(* ------------------------- PCM16 conversion --------------------------- *)

\* the integer part of num/den (den > 0), rounded toward zero
Trunc(num, den) == IF num >= 0 THEN num \div den ELSE (num + den - 1) \div den

\* storing a number into an Int16Array element: the integer part modulo 2^16
ToInt16(v) == ((v + 32768) % 65536) - 32768

\* Math.max(-1, Math.min(1, f)), then s < 0 ? s * 0x8000 : s * 0x7fff, stored
\* into an Int16Array
floatToInt16(f) ==
    LET s == IF f.num > f.den THEN Float(1, 1)
             ELSE IF f.num < -f.den THEN Float(-1, 1)
             ELSE f
    IN  IF s.num < 0
        THEN ToInt16(Trunc(s.num * 32768, s.den))
        ELSE ToInt16(Trunc(s.num * 32767, s.den))

\* new Uint8Array(int16.buffer): two bytes per sample, low byte first
int16ToBytes(int16) ==
    [i \in 1..(2 * Len(int16)) |->
        LET u == (int16[(i + 1) \div 2] + 65536) % 65536
        IN  IF i % 2 = 1 THEN u % 256 ELSE u \div 256]

\* new Int16Array(bytes.buffer)
bytesToInt16(bytes) ==
    [i \in 1..(Len(bytes) \div 2) |->
        LET u == bytes[2 * i - 1] + 256 * bytes[2 * i]
        IN  IF u >= 32768 THEN u - 65536 ELSE u]

\* a base64 text is a sequence of 6-bit digits; Pad stands for "="
Pad == 64

\* btoa of the binary string of the bytes
btoa(bytes) ==
    LET n == Len(bytes)
        at(k) == IF k <= n THEN bytes[k] ELSE 0
    IN  [j \in 1..(4 * ((n + 2) \div 3)) |->
            LET g == (j - 1) \div 4
                b0 == at(3 * g + 1)
                b1 == at(3 * g + 2)
                b2 == at(3 * g + 3)
            IN  CASE (j - 1) % 4 = 0 -> b0 \div 4
                  [] (j - 1) % 4 = 1 -> (b0 % 4) * 16 + b1 \div 16
                  [] (j - 1) % 4 = 2 -> IF 3 * g + 2 > n THEN Pad
                                        ELSE (b1 % 16) * 4 + b2 \div 64
                  [] OTHER           -> IF 3 * g + 3 > n THEN Pad ELSE b2 % 64]

\* the char codes of atob(text)
atob(text) ==
    LET digits == Cardinality({j \in 1..Len(text) : text[j] # Pad})
        at(k) == IF text[k] = Pad THEN 0 ELSE text[k]
    IN  [i \in 1..((digits * 6) \div 8) |->
            LET g == (i - 1) \div 3
                c0 == at(4 * g + 1)
                c1 == at(4 * g + 2)
                c2 == at(4 * g + 3)
                c3 == at(4 * g + 4)
            IN  CASE (i - 1) % 3 = 0 -> c0 * 4 + c1 \div 16
                  [] (i - 1) % 3 = 1 -> (c1 % 16) * 16 + c2 \div 4
                  [] OTHER           -> (c2 % 4) * 64 + c3]

encodePCM16ToBase64(float32) ==
    btoa(int16ToBytes([i \in 1..Len(float32) |-> floatToInt16(float32[i])]))

decodeBase64ToPCM16(base64Data) ==
    LET int16Array == bytesToInt16(atob(base64Data))
    IN  [i \in 1..Len(int16Array) |-> Float(int16Array[i], 32768)]

(* --------------------- SpecCodec: one sample -------------------------- *)

\* samples are the multiples of 1/SampleScale in [-1, 1]
SampleBits == 16
SampleScale == 2 ^ SampleBits

InitCodec ==
    /\ InitAllButPcm
    /\ \E n \in (-SampleScale)..SampleScale :
          pcm = [NoPcm EXCEPT !.stage = "sample", !.x = Float(n, SampleScale)]

Encode ==
    /\ pcm.stage = "sample"
    /\ pcm' = [pcm EXCEPT !.stage = "encoded",
                          !.base64 = encodePCM16ToBase64(<<pcm.x>>)]
    /\ UNCHANGED <<pcmProcessor, port, fed, posted, sentAudio, processCalls>>
    /\ UNCHANGED pttVars
    /\ UNCHANGED <<hookVars, appVars, appPlayVars, svcVars>>

Decode ==
    /\ pcm.stage = "encoded"
    /\ pcm' = [pcm EXCEPT !.stage = "decoded",
                          !.y = decodeBase64ToPCM16(pcm.base64)]
    /\ UNCHANGED <<pcmProcessor, port, fed, posted, sentAudio, processCalls>>
    /\ UNCHANGED pttVars
    /\ UNCHANGED <<hookVars, appVars, appPlayVars, svcVars>>

NextCodec ==
    \/ Encode
    \/ Decode

SpecCodec == InitCodec /\ [][NextCodec]_vars

\* the numerator of f over the denominator den, a multiple of f.den
Rescale(f, den) == f.num * (den \div f.den)

Abs(d) == IF d < 0 THEN -d ELSE d

\* C32: every sample in [-1, 1] that was encoded to PCM16 and decoded again is
\* within 1/32768 of the original
C32_RoundTripWithinOneStep ==
    pcm.stage = "decoded" =>
        /\ Len(pcm.y) = 1
        /\ Abs(Rescale(pcm.y[1], SampleScale) - Rescale(pcm.x, SampleScale))
              <= SampleScale \div 32768


(* ---------------------- the AudioWorklet processor -------------------- *)

\* sendBuffer: the buffered samples are converted and posted (out: the frames
\* posted during the current process() call)
sendBuffer(w) ==
    [w EXCEPT !.out = Append(@, [i \in 1..w.bufferIndex |-> floatToInt16(w.buffer[i])]),
              !.bufferIndex = 0]

\* variant: the buffer is taken for full one sample early
storeOffByOne(w, x) ==
    LET a == [w EXCEPT !.buffer[w.bufferIndex + 1] = x, !.bufferIndex = @ + 1]
    IN  IF a.bufferIndex >= FrameSize - 1 THEN sendBuffer(a) ELSE a

\* the body of the loop of process()
store(w, x) ==
    LET a == [w EXCEPT !.buffer[w.bufferIndex + 1] = x, !.bufferIndex = @ + 1]
    IN  IF a.bufferIndex >= FrameSize THEN sendBuffer(a) ELSE a

\* the iterations lo..hi of the loop of process(), in order: the first half,
\* then (its result w1 in hand) the second half
RECURSIVE processRange(_, _, _, _)
processRange(w, channelData, lo, hi) ==
    IF lo > hi THEN w
    ELSE IF lo = hi THEN store(w, channelData[lo])
    ELSE LET mid == (lo + hi) \div 2
             w1 == processRange(w, channelData, lo, mid)
         IN  IF w1.bufferIndex >= 0
             THEN processRange(w1, channelData, mid + 1, hi)
             ELSE w1

process(w, channelData) ==
    IF Len(channelData) = 0 THEN w
    ELSE processRange(w, channelData, 1, Len(channelData))

\* the render quanta handed to process(): their lengths, and samples that
\* cover both signs and values outside [-1, 1]
MaxProcessCalls == 2
BlockLengths == {0, 1, FrameSize - 1, FrameSize, 2 * FrameSize + 1}
BlockOf(len, shift) == [i \in 1..len |-> Float(((7 * i + 3 * shift) % 9) - 4, 2)]

Process(channelData) ==
    /\ processCalls < MaxProcessCalls
    /\ LET w == process([buffer |-> pcmProcessor.buffer,
                         bufferIndex |-> pcmProcessor.bufferIndex,
                         out |-> <<>>], channelData)
       IN  /\ pcmProcessor' = [buffer |-> w.buffer, bufferIndex |-> w.bufferIndex]
           /\ port' = port \o w.out
           /\ posted' = posted \o w.out
    /\ fed' = fed \o channelData
    /\ processCalls' = processCalls + 1
    /\ UNCHANGED <<pcm, sentAudio>>
    /\ UNCHANGED pttVars
    /\ UNCHANGED <<hookVars, appVars, appPlayVars, svcVars>>

\* workletNode.port.onmessage in startAudioCapture: the frame is turned into
\* floats, encoded again and written to the socket, if the socket is open
workletMessage(s, sent, int16Buffer) ==
    IF WsOpen(s)
    THEN Append(sent, [frame |-> int16Buffer,
                       data |-> encodePCM16ToBase64(
                                   [i \in 1..Len(int16Buffer) |->
                                       Float(int16Buffer[i], 32768)])])
    ELSE sent

WorkletMessage ==
    /\ port # <<>>
    /\ sentAudio' = workletMessage(Cur, sentAudio, Head(port))
    /\ port' = Tail(port)
    /\ UNCHANGED <<pcm, pcmProcessor, fed, posted, processCalls>>
    /\ UNCHANGED pttVars
    /\ UNCHANGED <<hookVars, appVars, appPlayVars, svcVars>>

(***************************************************************************)
(* SpecWorklet: one PCMProcessor fed with render quanta, the frames it     *)
(* posts and the handler of its port, next to one connection of the hook.  *)
(***************************************************************************)
WorkletScope == Cardinality(UsedSockets(Cur)) <= 1

NextWorklet ==
    \/ Connect /\ WorkletScope'
    \/ \E i \in SocketIds : SocketOpen(i) /\ WorkletScope'
    \/ \E len \in BlockLengths, shift \in 0..1 : Process(BlockOf(len, shift))
    \/ WorkletMessage

SpecWorklet == Init /\ [][NextWorklet]_vars

\* C31: every frame the processor posted has FrameSize samples; the samples of
\* the posted frames, then those waiting in buffer[0..bufferIndex), are the
\* samples handed to process(), in order (in a frame, as PCM16); between calls
\* 0 <= bufferIndex < FrameSize
C31_FramesPartitionInput ==
    LET framed == FrameSize * Len(posted) IN
    /\ \A f \in 1..Len(posted) : Len(posted[f]) = FrameSize
    /\ pcmProcessor.bufferIndex \in 0..(FrameSize - 1)
    /\ Len(fed) = framed + pcmProcessor.bufferIndex
    /\ \A j \in 1..Len(fed) :
          IF j <= framed
          THEN posted[((j - 1) \div FrameSize) + 1][((j - 1) % FrameSize) + 1]
                  = floatToInt16(fed[j])
          ELSE pcmProcessor.buffer[j - framed] = fed[j]

\* a call with more samples than a frame has been processed: two frames were
\* posted by one call after a residue was already buffered
C31_Witness ==
    /\ processCalls = 2
    /\ Len(posted) = 2
    /\ pcmProcessor.bufferIndex = 2
    /\ Len(fed) = 2 * FrameSize + 2

\* C39: the samples of every audio message written to the socket are the
\* int16 samples of the frame the worklet posted
C39_SentSamplesAreWorkletSamples ==
    \A m \in 1..Len(sentAudio) :
        bytesToInt16(atob(sentAudio[m].data)) = sentAudio[m].frame


(* ------------- push-to-talk handlers of the orchestrator ------------- *)

handleTalkStart(p) ==
    IF connectionState = "CONNECTED"
    THEN startAudioCapture(vlSend([p EXCEPT !.isTalkingRef = TRUE], "audio.clear"))
    ELSE p

handleTalkEnd(p) ==
    vlSend(stopAudioCapture([p EXCEPT !.isTalkingRef = FALSE]), "audio.commit")

\* VoiceControls.handlePttDown
handlePttDown(p) ==
    IF connectionState # "CONNECTED" THEN p
    ELSE handleTalkStart([p EXCEPT !.isPushing = TRUE])

\* VoiceControls.handlePttUp
handlePttUp(p) ==
    IF ~p.isPushing THEN p
    ELSE handleTalkEnd([p EXCEPT !.isPushing = FALSE])

\* the pointer goes down on the push-to-talk button (shown when CONNECTED)
PttDown ==
    /\ connectionState = "CONNECTED"
    /\ ~buttonDown
    /\ buttonDown' = TRUE
    /\ SetPtt(handlePttDown(Ptt))
    /\ UNCHANGED <<spaceDown, pcmVars>>
    /\ UNCHANGED <<hookVars, appVars, appPlayVars, svcVars>>

\* the pointer goes up on the button
PttUp ==
    /\ connectionState = "CONNECTED"
    /\ buttonDown
    /\ buttonDown' = FALSE
    /\ SetPtt(handlePttUp(Ptt))
    /\ UNCHANGED <<spaceDown, pcmVars>>
    /\ UNCHANGED <<hookVars, appVars, appPlayVars, svcVars>>

\* the pointer leaves the button, pressed or not
PttLeave ==
    /\ connectionState = "CONNECTED"
    /\ buttonDown' = FALSE
    /\ SetPtt(handlePttUp(Ptt))
    /\ UNCHANGED <<spaceDown, pcmVars>>
    /\ UNCHANGED <<hookVars, appVars, appPlayVars, svcVars>>

\* handleKeyDown for the spacebar (not a repeat) in REALTIME_VOICE mode;
\* inField: the focus is in a TEXTAREA or INPUT
KeyDown(inField) ==
    /\ ~spaceDown
    /\ spaceDown' = TRUE
    /\ SetPtt(IF inField THEN Ptt ELSE handleTalkStart(Ptt))
    /\ UNCHANGED <<buttonDown, pcmVars>>
    /\ UNCHANGED <<hookVars, appVars, appPlayVars, svcVars>>

\* handleKeyUp for the spacebar in REALTIME_VOICE mode
KeyUp ==
    /\ spaceDown
    /\ spaceDown' = FALSE
    /\ SetPtt(handleTalkEnd(Ptt))
    /\ UNCHANGED <<buttonDown, pcmVars>>
    /\ UNCHANGED <<hookVars, appVars, appPlayVars, svcVars>>

\* getUserMedia of one startAudioCapture call resolves: the stream and a new
\* ScriptProcessor are stored in the refs
CaptureResolved ==
    /\ pendingCaptures > 0
    /\ LET id == Cardinality({c \in CapIds : captures[c] # NoCapture}) + 1 IN
       /\ id <= MaxCaptures
       /\ SetPtt([Ptt EXCEPT !.pendingCaptures = @ - 1,
                             !.captures[id] = [stream |-> "live",
                                               processor |-> "connected"],
                             !.streamRef = id,
                             !.appProcessorRef = id])
    /\ UNCHANGED <<buttonDown, spaceDown, pcmVars>>
    /\ UNCHANGED <<hookVars, appVars, appPlayVars, svcVars>>

\* getUserMedia rejects: startAudioCapture logs the error
CaptureRejected ==
    /\ pendingCaptures > 0
    /\ SetPtt([Ptt EXCEPT !.pendingCaptures = @ - 1])
    /\ UNCHANGED <<buttonDown, spaceDown, pcmVars>>
    /\ UNCHANGED <<hookVars, appVars, appPlayVars, svcVars>>

\* processor.onaudioprocess of a connected ScriptProcessor
AudioProcess(c) ==
    /\ captures[c].processor = "connected"
    /\ SetPtt(IF ~isTalkingRef THEN Ptt ELSE vlSend(Ptt, "audio"))
    /\ UNCHANGED <<buttonDown, spaceDown, pcmVars>>
    /\ UNCHANGED <<hookVars, appVars, appPlayVars, svcVars>>

(***************************************************************************)
(* SpecPtt: voice-only sessions of the orchestrator in push-to-talk mode,  *)
(* with one pointer on the talk button and the spacebar.                   *)
(***************************************************************************)
NextPtt ==
    \/ startLiveSession
    \/ stopLiveSession
    \/ \E a \in AppIds : AppSocketOpen(a)
    \/ \E a \in AppIds : AppSessionReady(a, FALSE)
    \/ PttDown
    \/ PttUp
    \/ PttLeave
    \/ \E inField \in BOOLEAN : KeyDown(inField)
    \/ KeyUp
    \/ CaptureResolved
    \/ CaptureRejected
    \/ \E c \in CapIds : AudioProcess(c)

SpecPtt == Init /\ [][NextPtt]_vars

\* C37: on the control channel of every session each audio.commit, and each
\* audio message, comes after an audio.clear with no audio.commit in between
C37_WellBracketed ==
    \A a \in AppIds : \A i \in 1..Len(wire[a]) :
        wire[a][i] \in {"audio.commit", "audio"} =>
            \E j \in 1..(i - 1) :
                /\ wire[a][j] = "audio.clear"
                /\ \A m \in (j + 1)..(i - 1) : wire[a][m] # "audio.commit"

\* C38: at most one microphone stream and one capture processor are live, and
\* none is live when nothing is pressed and no getUserMedia call is pending
C38_OneCaptureAtMost ==
    LET liveStreams2 == {c \in CapIds : captures[c].stream = "live"}
        liveProcessors == {c \in CapIds : captures[c].processor = "connected"}
    IN  /\ Cardinality(liveStreams2) <= 1
        /\ Cardinality(liveProcessors) <= 1
        /\ (~buttonDown /\ ~isPushing /\ ~spaceDown /\ pendingCaptures = 0) =>
              liveStreams2 = {} /\ liveProcessors = {}

(* ============== further properties of the hook ======================== *)

(***************************************************************************)
(* SpecSendText: texts typed by the user, with and without surrounding     *)
(* whitespace, are sent while connections are opened and ended.            *)
(***************************************************************************)
MaxSendSockets == 2

SendScope == Cardinality(UsedSockets(Cur)) <= MaxSendSockets

NextSendText ==
    \/ Connect /\ SendScope'
    \/ Disconnect /\ SendScope'
    \/ \E i \in SocketIds : SocketOpen(i) /\ SendScope'
    \/ \E i \in SocketIds : SocketClosed(i) /\ SendScope'
    \/ \E text \in TypedTexts : SendTextMessage(text) /\ SendScope'

SpecSendText == Init /\ [][NextSendText]_vars

\* C40: sendTextMessage(text) appends one user entry holding the trimmed text
\* and sends one text.input message with it when the trimmed text is not empty
\* and the socket is open; otherwise it sends nothing and leaves the history
\* as it is, and reports an error only when the trimmed text is not empty
C40_SendTextFrame ==
    [][\A text \in TypedTexts :
          SendTextMessage(text) =>
              IF trim(text) # "" /\ WsOpen(Cur)
              THEN /\ transcripts' = Append(transcripts,
                                            [role |-> "user", text |-> trim(text)])
                   /\ wsSent' = <<[type |-> "text.input", text |-> trim(text)]>>
                   /\ reported' = {}
              ELSE /\ transcripts' = transcripts
                   /\ wsSent' = <<>>
                   /\ reported' = IF trim(text) # "" THEN {ErrSend} ELSE {}]_vars

\* a second text was sent over the open socket, and the history holds it
C40_Witness ==
    /\ wsSent = <<[type |-> "text.input", text |-> "a"]>>
    /\ WsOpen(Cur)
    /\ Len(transcripts) = 2
    /\ transcripts[2] = [role |-> "user", text |-> "a"]


\* C36: whenever the avatar status is connecting or connected, peerConnectionRef
\* holds a peer connection that is not closed
C36_AvatarStatusHasPeerConnection ==
    avatarStatus \in {"connecting", "connected"} =>
        /\ peerConnectionRef # 0
        /\ pcs[peerConnectionRef] = "open"


(***************************************************************************)
(* SpecUnmount: the connection lifecycle of Spec up to and after the       *)
(* unmount of the component that uses the hook.                            *)
(***************************************************************************)
NextUnmount ==
    \/ Connect /\ ConnScope'
    \/ Disconnect /\ ConnScope'
    \/ Unmount /\ ConnScope'
    \/ \E i \in SocketIds : SocketOpen(i) /\ ConnScope'
    \/ \E i \in SocketIds : SocketPeerClose(i) /\ ConnScope'
    \/ \E i \in SocketIds : SocketClosed(i) /\ ConnScope'
    \/ \E k \in 1..MaxTimers : TimerFire(k) /\ ConnScope'

SpecUnmount == Init /\ [][NextUnmount]_vars

\* C34: once the unmount cleanup has run, no WebSocket is created
C34_NoSocketAfterUnmount ==
    [][~mounted =>
          \A i \in SocketIds : sockets[i].st = "unused" => sockets'[i].st = "unused"]_vars


\* C35: from disconnect() until the next connect() the published state is
\* status disconnected, avatar status none and speaking state idle, whatever
\* completes late
C35_DisconnectedStateIsStable ==
    (userOps = 2 /\ ~intended /\ mounted) =>
        /\ status = "disconnected"
        /\ avatarStatus = "none"
        /\ speakingState = "idle"


\* the playback queue of the hook: at most one source plays, isPlayingRef
\* tells whether a source is current, and queued segments wait for a playing one
HookQueueConsistent ==
    /\ Cardinality({k \in SegIds : sources[k].st = "playing"}) <= 1
    /\ isPlayingRef <=> (currentSourceRef # 0)
    /\ audioQueueRef # <<>> => \E k \in SegIds : sources[k].st = "playing"

\* the same for the playback queue of the orchestrator
AppQueueConsistent ==
    /\ Cardinality({k \in SegIds : appSources[k].st = "playing"}) <= 1
    /\ appIsPlaying <=> (appCurrentSource # 0)
    /\ appAudioQueue # <<>> => \E k \in SegIds : appSources[k].st = "playing"

\* C33: in both playback queues at most one buffer source plays at a time,
\* the playing flag is set exactly when a source is current, and no segment is
\* left queued with nothing playing
C33_OneSourceAtATime ==
    /\ HookQueueConsistent
    /\ AppQueueConsistent

=============================================================================
